---------------------------- MODULE Spec2Model ----------------------------
(***************************************************************************)
(* A model of the deterministic core of text-to-protein-classroom          *)
(* (src/src/App.tsx): the seeded generator mulberry32, genSeq, comp,       *)
(* toyFoldScore, hashPrompt, toyActivity, simulateLab and buildBackbone.   *)
(*                                                                         *)
(* Number representation.  TLC's integers are 32-bit signed, so a 32-bit   *)
(* pattern is kept as a pair <<hi, lo>> of 16-bit halves (a "word") and a  *)
(* JavaScript number holding an integer as a triple <<top, hi, lo>> that   *)
(* stands for top * 2^32 + hi * 2^16 + lo.  A draw of the generator is the *)
(* numerator n of n / 2^32, again as a pair <<hi, lo>> standing for        *)
(* hi * 2^16 + lo (hi is negative when the numerator is).                  *)
(***************************************************************************)
EXTENDS Integers, Sequences, FiniteSets, TLC

VARIABLES
    cell,      \* SpecRng: the captured variable `a` of each closure, by slot
    seedOf,    \* SpecRng: the seed each generator was constructed with
    drawn,     \* SpecRng: the values each generator has returned, in order
    sRng0,     \* SpecSeq: the generator as it was constructed
    sRng,      \* SpecSeq: the generator the caller holds and passes to genSeq
    sLens,     \* SpecSeq: the len argument of each genSeq call so far
    sOuts,     \* SpecSeq: the string each genSeq call returned
    fSeq,      \* SpecFold: the sequence passed to toyFoldScore
    fScore,    \* SpecFold: <<the value toyFoldScore returned>>, <<>> before the call
    fComp,     \* SpecFold: <<the record comp returned inside that call>>
    lRng0,     \* SpecLab: the generator as it was constructed
    lRng,      \* SpecLab: the generator passed to simulateLab
    lX,        \* SpecLab: the x argument of the last simulateLab call
    lDraw,     \* SpecLab: the value rng() returned inside the last call
    lRet,      \* SpecLab: the value the last simulateLab call returned
    lCount,    \* SpecLab: the number of simulateLab calls made
    bSeq,      \* SpecBackbone: the seq argument of buildBackbone
    bSeed,     \* SpecBackbone: the seed argument of buildBackbone
    bPts,      \* SpecBackbone: <<the list buildBackbone returned>>, <<>> before the call
    bHeap,     \* SpecBackbone: the generators that exist, by slot; slot 1 is the caller's
    bCaller0,  \* SpecBackbone: the caller's generator as it was constructed
    bCallerDrawn, \* SpecBackbone: the values the caller's generator has returned
    bBuiltAt,  \* SpecBackbone: how many of them were returned before buildBackbone ran
    hPrompt,   \* SpecHash: the prompt passed to hashPrompt, as its char codes
    hOut,      \* SpecHash: <<the value hashPrompt returned>>, <<>> before the call
    aSeq,      \* SpecActivity: the seq argument of every toyActivity call
    aPrompt,   \* SpecActivity: the prompt argument of every toyActivity call
    aRng,      \* SpecActivity: a generator the program holds and draws from
    aCalls,    \* SpecActivity: per toyActivity call, what it returned and when
    zV,        \* SpecSize: the argument v of safeSize
    zFallback, \* SpecSize: the argument fallback of safeSize
    zOut,      \* SpecSize: <<the value safeSize returned>>, <<>> before the call
    tText,     \* SpecText: the text passed to textToProtein, as its char codes
    tOut,      \* SpecText: <<the sequence textToProtein returned>>
    pInput,    \* SpecPage: textInput.value, as its char codes
    pBtn,      \* SpecPage: the generate button: disabled, textContent, class loading
    pTimers,   \* SpecPage: the pending 500 ms timers, oldest first, each with its text
    pDisplay,  \* SpecPage: proteinSequence.innerHTML
    pMesh,     \* SpecPage: this.proteinMesh: the sequence it was built from, its children
    pLast,     \* SpecPage: the texts of the requests made, oldest first
    pCounts,   \* SpecPage: how many alerts were shown, timers fired, timers pending at most
    uPrompt,   \* SpecApp: the state prompt of App, as its char codes
    uCount,    \* SpecApp: the state count
    uLengthAA, \* SpecApp: the state lengthAA
    uSeed,     \* SpecApp: the state seed
    uRows,     \* SpecApp: the state rows
    uSel,      \* SpecApp: the state sel: <<>> for null, <<row>> otherwise
    uPipe      \* SpecApp: how far generate, screen, lab have run in this order

rngVars  == <<cell, seedOf, drawn>>
seqVars  == <<sRng0, sRng, sLens, sOuts>>
foldVars == <<fSeq, fScore, fComp>>
labVars  == <<lRng0, lRng, lX, lDraw, lRet, lCount>>
bbVars   == <<bSeq, bSeed, bPts, bHeap, bCaller0, bCallerDrawn, bBuiltAt>>
hashVars == <<hPrompt, hOut>>
actVars  == <<aSeq, aPrompt, aRng, aCalls>>
sizeVars == <<zV, zFallback, zOut>>
textVars == <<tText, tOut>>
pageVars == <<pInput, pBtn, pTimers, pDisplay, pMesh, pLast, pCounts>>
appVars  == <<uPrompt, uCount, uLengthAA, uSeed, uRows, uSel, uPipe>>
vars == <<rngVars, seqVars, foldVars, labVars, bbVars, hashVars, actVars,
          sizeVars, textVars, pageVars, appVars>>

\* the variables of a specification that does not use them
IdleRng  == cell = <<>> /\ seedOf = <<>> /\ drawn = <<>>
IdleSeq  == sRng0 = <<>> /\ sRng = <<>> /\ sLens = <<>> /\ sOuts = <<>>
IdleFold == fSeq = <<>> /\ fScore = <<>> /\ fComp = <<>>
IdleLab  == lRng0 = <<>> /\ lRng = <<>> /\ lX = <<>> /\ lDraw = <<>> /\ lRet = <<>> /\ lCount = 0
IdleBb   ==
    /\ bSeq = <<>> /\ bSeed = <<>> /\ bPts = <<>>
    /\ bHeap = <<>> /\ bCaller0 = <<>> /\ bCallerDrawn = <<>> /\ bBuiltAt = -1

IdleHash == hPrompt = <<>> /\ hOut = <<>>
IdleAct  == aSeq = <<>> /\ aPrompt = <<>> /\ aRng = <<>> /\ aCalls = <<>>
IdleSize == zV = <<>> /\ zFallback = <<>> /\ zOut = <<>>
IdleText == tText = <<>> /\ tOut = <<>>
IdlePage ==
    /\ pInput = <<>> /\ pBtn = <<>> /\ pTimers = <<>> /\ pDisplay = <<>>
    /\ pMesh = <<>> /\ pLast = <<>> /\ pCounts = <<>>
IdleApp  ==
    /\ uPrompt = <<>> /\ uCount = <<>> /\ uLengthAA = <<>> /\ uSeed = <<>>
    /\ uRows = <<>> /\ uSel = <<>> /\ uPipe = <<>>
coreVars == <<rngVars, seqVars, foldVars, labVars, bbVars, hashVars, actVars>>
IdleCore == IdleRng /\ IdleSeq /\ IdleFold /\ IdleLab /\ IdleBb /\ IdleHash /\ IdleAct
\* the variables of the specifications of safeSize, the legacy page and App
IdleUi == IdleSize /\ IdleText /\ IdlePage /\ IdleApp
uiVars == <<sizeVars, textVars, pageVars, appVars>>

---------------------------------------------------------------------------
(* 16-bit and 32-bit arithmetic *)

Two8  == 2^8
Two14 == 2^14
Two15 == 2^15
Two16 == 2^16
Two21 == 2^21

RECURSIVE Pow2(_)
Pow2(k) == IF k = 0 THEN 1 ELSE 2 * Pow2(k - 1)

\* x ^ y on two numbers below 2^n, bit by bit
RECURSIVE XorBits(_, _, _)
XorBits(x, y, n) ==
    IF n = 0 THEN 0
    ELSE (IF (x % 2) # (y % 2) THEN 1 ELSE 0) + 2 * XorBits(x \div 2, y \div 2, n - 1)

\* x | y on two numbers below 2^n, bit by bit
RECURSIVE OrBits(_, _, _)
OrBits(x, y, n) ==
    IF n = 0 THEN 0
    ELSE (IF (x % 2) = 1 \/ (y % 2) = 1 THEN 1 ELSE 0) + 2 * OrBits(x \div 2, y \div 2, n - 1)

\* the operator ^ of JavaScript on two 32-bit patterns
XorW(x, y) == <<XorBits(x[1], y[1], 16), XorBits(x[2], y[2], 16)>>

\* the operator | of JavaScript on a 32-bit pattern and a constant below 2^16
OrW(x, c) == <<x[1], OrBits(x[2], c, 16)>>

\* the operator >>> of JavaScript on a 32-bit pattern, for 0 < k < 16
ShrW(x, k) ==
    <<x[1] \div Pow2(k), (x[1] % Pow2(k)) * Pow2(16 - k) + (x[2] \div Pow2(k))>>

\* x + y modulo 2^32 (ToInt32 of the sum of two 32-bit integers)
AddW(x, y) ==
    LET lo == x[2] + y[2]
        hi == x[1] + y[1] + (lo \div Two16)
    IN  <<hi % Two16, lo % Two16>>

\* the full 32-bit product of two 16-bit numbers, as <<hi, lo>>
Mul16(x, y) ==
    LET p1 == x * (y \div Two8)
        p0 == x * (y % Two8)
        s  == (p1 % Two8) * Two8 + p0
    IN  <<((p1 \div Two8) + (s \div Two16)) % Two16, s % Two16>>

\* Math.imul: the low 32 bits of the product of two 32-bit patterns
Imul(x, y) ==
    LET ll == Mul16(x[2], y[2])
        hl == Mul16(x[1], y[2])
        lh == Mul16(x[2], y[1])
    IN  <<(ll[1] + hl[2] + lh[2]) % Two16, ll[2]>>

\* the triple <<top, hi, lo>> with 0 <= hi, lo < 2^16 that stands for
\* t * 2^32 + h * 2^16 + l
TNorm(t, h, l) ==
    LET h2 == h + (l \div Two16)
    IN  <<t + (h2 \div Two16), h2 % Two16, l % Two16>>

\* -v
Neg3(v) == TNorm(-v[1], -v[2], -v[3])

\* the largest k with 2^k <= x, for x >= 1
RECURSIVE Log2(_)
Log2(x) == IF x < 2 THEN 0 ELSE 1 + Log2(x \div 2)

\* the double nearest to the integer v >= 0, ties to the even significand
\* (round-to-nearest-even of IEEE 754): v itself below 2^53, else a multiple
\* of the spacing 2^k of the doubles in [2^(52+k), 2^(53+k)); for v < 2^62
RoundNonNeg(v) ==
    IF v[1] < Two21 THEN v
    ELSE LET s    == Pow2(Log2(v[1]) - 20)
             r    == v[3] % s
             down == v[3] - r
             up   == 2 * r > s \/ (2 * r = s /\ (down \div s) % 2 = 1)
         IN  TNorm(v[1], v[2], IF up THEN down + s ELSE down)

\* the double nearest to the integer v
ToDouble(v) == IF v[1] >= 0 THEN RoundNonNeg(v) ELSE Neg3(RoundNonNeg(Neg3(v)))

\* ToInt32 / ToUint32 of a JavaScript number holding an integer: its low 32 bits
ToWord(a) == <<a[2], a[3]>>

\* the numerator of a draw from a 32-bit pattern read as unsigned (>>> 0)
ToUint32(w) == w

\* the numerator of a draw from a 32-bit pattern read as signed (no >>> 0)
ToInt32(w) == <<IF w[1] >= Two15 THEN w[1] - Two16 ELSE w[1], w[2]>>

---------------------------------------------------------------------------
(* mulberry32 *)

\* 0x6D2B79F5
Increment == <<27947, 31221>>

\* a += 0x6D2B79F5 on the JavaScript number a: the sum of two doubles,
\* rounded to a double
AddIncrement(a) == ToDouble(TNorm(a[1], a[2] + Increment[1], a[3] + Increment[2]))

\* t = Math.imul(t ^ (t >>> 15), t | 1)
Mix1(t) == Imul(XorW(t, ShrW(t, 15)), OrW(t, 1))

\* t ^= t + Math.imul(t ^ (t >>> 7), t | 61)
Mix2(t) == XorW(t, AddW(t, Imul(XorW(t, ShrW(t, 7)), OrW(t, 61))))

mulberry32OutSigned(t) == ToInt32(XorW(t, ShrW(t, 14)))

\* ((t ^ (t >>> 14)) >>> 0), the numerator of the value returned
mulberry32Out(t) == ToUint32(XorW(t, ShrW(t, 14)))

\* one call of the closure on captured state a: <<value returned, new a>>
mulberry32Call(a) ==
    LET a2 == AddIncrement(a)
    IN  <<mulberry32Out(Mix2(Mix1(ToWord(a2)))), a2>>

---------------------------------------------------------------------------
(* A generator as a caller of genSeq or simulateLab sees it: a function    *)
(* rng() with hidden state.  kind "mulberry32" is a closure made by        *)
(* mulberry32 (state a); kind "stream" is any other generator, given by    *)
(* the values it returns, in order and cyclically.  calls counts the calls *)
(* made to it.                                                             *)

Mulberry32Rng(seed) == [kind |-> "mulberry32", a |-> seed, rest |-> <<>>, calls |-> 0]

StreamRng(ds) == [kind |-> "stream", a |-> <<0, 0, 0>>, rest |-> ds, calls |-> 0]

\* rng(): <<value returned, the generator afterwards>>
RngCall(g) ==
    IF g.kind = "mulberry32"
    THEN LET r == mulberry32Call(g.a)
         IN  <<r[1], [g EXCEPT !.a = r[2], !.calls = @ + 1]>>
    ELSE <<Head(g.rest),
           [g EXCEPT !.rest = Append(Tail(@), Head(@)), !.calls = @ + 1]>>

---------------------------------------------------------------------------
(* genSeq *)

ALPHABET ==
    << "A", "C", "D", "E", "F", "G", "H", "I", "K", "L",
       "M", "N", "P", "Q", "R", "S", "T", "V", "W", "Y" >>

\* the characters JavaScript appends for s += undefined
Undefined == << "u", "n", "d", "e", "f", "i", "n", "e", "d" >>

\* Math.floor(d * m) for the draw d = <<hi, lo>> / 2^32 (the product is exact)
FloorMul(d, m) == ((d[1] * m) + ((d[2] * m) \div Two16)) \div Two16

\* what s += ALPHABET[idx] appends
AlphabetAt(idx) ==
    IF idx \in 0 .. (Len(ALPHABET) - 1) THEN <<ALPHABET[idx + 1]>> ELSE Undefined

\* the loop of genSeq from index i on: <<s, the generator afterwards>>
RECURSIVE genSeqLoop(_, _, _, _)
genSeqLoop(i, len, s, g) ==
    IF i < len
    THEN LET r   == RngCall(g)
             idx == FloorMul(r[1], Len(ALPHABET))
         IN  genSeqLoop(i + 1, len, s \o AlphabetAt(idx), r[2])
    ELSE <<s, g>>

genSeqOffByOne(len, g) == genSeqLoop(0, len + 1, <<>>, g)

genSeqWarmUp(len, g) == genSeqLoop(0, len, <<>>, RngCall(g)[2])

\* genSeq(len, rng): <<the string returned, the generator afterwards>>
genSeq(len, g) == genSeqLoop(0, len, <<>>, g)

---------------------------------------------------------------------------
(* SpecSeq: genSeq called repeatedly on one generator *)

MaxLen == 3
MaxCalls == 2
StreamLen == 2

\* seeds as JavaScript numbers: 0, 1, 2, 7, 42, 123, 2^32 - 1, -1, 5 + 2^32,
\* 2^53 + 2 and 2^53 - 0x6D2B79F5
Seeds ==
    { <<0, 0, 0>>, <<0, 0, 1>>, <<0, 0, 2>>, <<0, 0, 7>>, <<0, 0, 42>>, <<0, 0, 123>>,
      <<0, 65535, 65535>>, <<-1, 65535, 65535>>, <<1, 0, 5>>,
      <<Two21, 0, 2>>, <<Two21 - 1, 37588, 34315>> }

\* draws in [0,1): 0, the largest below 1/20, 1/20 rounded up, the largest below 1
DrawSamples == { <<0, 0>>, <<3276, 52428>>, <<3276, 52429>>, <<65535, 65535>> }

Streams == [1 .. StreamLen -> DrawSamples]

RngInits == {Mulberry32Rng(s) : s \in Seeds} \cup {StreamRng(ds) : ds \in Streams}

InitSeq ==
    /\ sRng0 \in RngInits
    /\ sRng = sRng0
    /\ sLens = <<>>
    /\ sOuts = <<>>
    /\ IdleRng /\ IdleFold /\ IdleLab /\ IdleBb /\ IdleHash /\ IdleAct /\ IdleUi

\* const seq = genSeq(len, rng)
CallGenSeq(len) ==
    /\ Len(sLens) < MaxCalls
    /\ LET r == genSeq(len, sRng)
       IN  /\ sOuts' = Append(sOuts, r[1])
           /\ sRng' = r[2]
    /\ sLens' = Append(sLens, len)
    /\ UNCHANGED <<sRng0, rngVars, foldVars, labVars, bbVars, hashVars, actVars, uiVars>>

NextSeq == \E len \in 0 .. MaxLen : CallGenSeq(len)

SpecSeq == InitSeq /\ [][NextSeq]_vars

---------------------------------------------------------------------------
(* Fractional numbers.  A finite value of comp and toyFoldScore is an      *)
(* exact fraction <<num, den>> with den > 0, kept in lowest terms; the     *)
(* non-finite values are the pairs NaN, PosInf and NegInf with den = 0.    *)
(* The rounding of IEEE doubles is not modelled: every operation is the    *)
(* real-number one.                                                        *)

NaN    == <<0, 0>>
PosInf == <<1, 0>>
NegInf == <<-1, 0>>

Abs(x) == IF x < 0 THEN -x ELSE x

RECURSIVE Gcd(_, _)
Gcd(x, y) == IF y = 0 THEN x ELSE Gcd(y, x % y)

Frac(n, d) ==
    LET g == Gcd(Abs(n), d) IN <<n \div g, d \div g>>

IsFinite(x) == x[2] # 0

FLe(x, y) == x[1] * y[2] <= y[1] * x[2]

FAdd(x, y) == Frac(x[1] * y[2] + y[1] * x[2], x[2] * y[2])

FSub(x, y) == Frac(x[1] * y[2] - y[1] * x[2], x[2] * y[2])

FMul(x, y) == Frac(x[1] * y[1], x[2] * y[2])

FAbs(x) == <<Abs(x[1]), x[2]>>

\* x / n for integers x >= 0 and n >= 0, as JavaScript divides
Div(x, n) ==
    IF n # 0 THEN Frac(x, n)
    ELSE IF x = 0 THEN NaN ELSE PosInf

\* Math.min and Math.max: NaN if either argument is NaN
MathMin(x, y) ==
    IF x = NaN \/ y = NaN THEN NaN ELSE IF FLe(x, y) THEN x ELSE y

MathMax(x, y) ==
    IF x = NaN \/ y = NaN THEN NaN ELSE IF FLe(x, y) THEN y ELSE x

---------------------------------------------------------------------------
(* comp and toyFoldScore *)

HYDRO == {"A", "V", "I", "L", "M", "F", "W", "Y"}
BASIC == {"K", "R", "H"}
ACID  == {"D", "E"}

\* the class the if / else-if chain of comp counts character c in
ClassOf(c) ==
    IF c \in HYDRO THEN "h"
    ELSE IF c \in BASIC THEN "b"
    ELSE IF c \in ACID THEN "a"
    ELSE "o"

\* A string is the sequence of its UTF-16 code units, each a one-character
\* string; "<hi>" and "<lo>" stand for a high and a low surrogate.
HighSurrogate == "<hi>"
LowSurrogate  == "<lo>"

\* the values for (const c of seq) visits: one per code point, a high
\* surrogate followed by a low one being a single value
RECURSIVE StringIterator(_)
StringIterator(seq) ==
    IF seq = <<>> THEN <<>>
    ELSE IF Len(seq) >= 2 /\ seq[1] = HighSurrogate /\ seq[2] = LowSurrogate
         THEN <<"<hi><lo>">> \o StringIterator(Tail(Tail(seq)))
         ELSE <<Head(seq)>> \o StringIterator(Tail(seq))

\* the counters after the loop of comp over the values visited
RECURSIVE compLoop(_, _)
compLoopMissingElse(seq, cnt) ==
    IF seq = <<>> THEN cnt
    ELSE LET c1 == IF Head(seq) \in HYDRO THEN [cnt EXCEPT !.h = @ + 1] ELSE cnt
             k  == IF Head(seq) \in BASIC THEN "b"
                   ELSE IF Head(seq) \in ACID THEN "a" ELSE "o"
         IN  compLoop(Tail(seq), [c1 EXCEPT ![k] = @ + 1])

compLoop(seq, cnt) ==
    IF seq = <<>> THEN cnt
    ELSE compLoop(Tail(seq), [cnt EXCEPT ![ClassOf(Head(seq))] = @ + 1])

compRecord(cnt, n) ==
    [h |-> cnt.h, b |-> cnt.b, a |-> cnt.a, o |-> cnt.o,
     hf |-> Div(cnt.h, n), bf |-> Div(cnt.b, n), af |-> Div(cnt.a, n)]

compNoGuard(seq) ==
    compRecord(compLoop(StringIterator(seq), [h |-> 0, b |-> 0, a |-> 0, o |-> 0]),
               Len(seq))

\* comp(seq), with n = Math.max(1, seq.length)
comp(seq) ==
    compRecord(compLoop(StringIterator(seq), [h |-> 0, b |-> 0, a |-> 0, o |-> 0]),
               IF Len(seq) >= 1 THEN Len(seq) ELSE 1)

\* 100 - Math.min(100, Math.abs(c.hf - 0.45) * 400)
hydScore(c) ==
    IF c.hf = NaN THEN NaN
    ELSE FSub(<<100, 1>>,
              MathMin(<<100, 1>>, FMul(FAbs(FSub(c.hf, <<45, 100>>)), <<400, 1>>)))

\* 100 - Math.min(100, Math.abs(c.b - c.a) * 10)
chargeScoreFractions(c) ==
    FSub(<<100, 1>>, MathMin(<<100, 1>>, FMul(FAbs(FSub(c.bf, c.af)), <<10, 1>>)))

chargeScore(c) ==
    FSub(<<100, 1>>, MathMin(<<100, 1>>, <<Abs(c.b - c.a) * 10, 1>>))

\* Math.max(0, Math.min(100, 0.6*hydScore + 0.4*chargeScore))
toyFoldScore(seq) ==
    LET c   == comp(seq)
        hyd == hydScore(c)
        chg == chargeScore(c)
    IN  IF hyd = NaN THEN NaN
        ELSE MathMax(<<0, 1>>,
                     MathMin(<<100, 1>>,
                             FAdd(FMul(<<6, 10>>, hyd), FMul(<<4, 10>>, chg))))

---------------------------------------------------------------------------
(* SpecFold: toyFoldScore applied to a sequence *)

MaxRun == 11

\* one residue of each class of comp, a character outside the alphabet, and
\* the two halves of a character outside the basic plane
FoldChars == {"A", "K", "D", "G", "X", HighSurrogate, LowSurrogate}

Rep(c, n) == [i \in 1 .. n |-> c]

\* two runs of one character each: the empty sequence, every sequence of one
\* class only, and every mix of two classes up to MaxRun characters of each
FoldSeqs ==
    {Rep(c1, n1) \o Rep(c2, n2) :
        <<c1, n1, c2, n2>> \in FoldChars \X (0 .. MaxRun) \X FoldChars \X (0 .. MaxRun)}

InitFold ==
    /\ fSeq \in FoldSeqs
    /\ fScore = <<>>
    /\ fComp = <<>>
    /\ IdleRng /\ IdleSeq /\ IdleLab /\ IdleBb /\ IdleHash /\ IdleAct /\ IdleUi

\* const fold = toyFoldScore(seq)
CallToyFoldScore ==
    /\ fScore = <<>>
    /\ fScore' = <<toyFoldScore(fSeq)>>
    /\ fComp' = <<comp(fSeq)>>
    /\ UNCHANGED <<fSeq, rngVars, seqVars, labVars, bbVars, hashVars, actVars, uiVars>>

NextFold == CallToyFoldScore

SpecFold == InitFold /\ [][NextFold]_vars

---------------------------------------------------------------------------
(* simulateLab.  Its numbers are fixed-point: [k |-> "fin", ip, r] stands  *)
(* for ip + r / 2^30 with 0 <= r < 2^30, which holds x + noise exactly for *)
(* the x of LabInputs (a double holds it exactly too, for |x| < 2^22);     *)
(* k is "nan", "+inf" or "-inf" for the non-finite values.                 *)

Two30 == 2^30

Fin(ip, r) == [k |-> "fin", ip |-> ip, r |-> r]
LNaN    == [k |-> "nan", ip |-> 0, r |-> 0]
LPosInf == [k |-> "+inf", ip |-> 0, r |-> 0]
LNegInf == [k |-> "-inf", ip |-> 0, r |-> 0]

\* x <= y on finite values
LLeFin(x, y) == x.ip < y.ip \/ (x.ip = y.ip /\ x.r <= y.r)

\* x <= y as JavaScript compares (false when either is NaN)
LLe(x, y) ==
    /\ x.k # "nan" /\ y.k # "nan"
    /\ \/ x.k = "-inf"
       \/ y.k = "+inf"
       \/ x.k = "fin" /\ y.k = "fin" /\ LLeFin(x, y)

\* x + y for a finite y
LAddFin(x, y) ==
    IF x.k # "fin" THEN x
    ELSE Fin(x.ip + y.ip + ((x.r + y.r) \div Two30), (x.r + y.r) % Two30)

LMin(x, y) == IF x.k = "nan" \/ y.k = "nan" THEN LNaN ELSE IF LLe(x, y) THEN x ELSE y

LMax(x, y) == IF x.k = "nan" \/ y.k = "nan" THEN LNaN ELSE IF LLe(x, y) THEN y ELSE x

\* (d - 0.5) * scale for the draw d = <<hi, lo>> / 2^32 and scale a multiple
\* of 4: d * scale - scale / 2, with d * scale = (u * scale / 4) / 2^30
NoiseScaled(d, scale) ==
    LET m  == scale \div 4
        lo == d[2] * m
        t  == d[1] * m + (lo \div Two16)
    IN  Fin((t \div Two14) - (scale \div 2), (t % Two14) * Two16 + (lo % Two16))

labNoiseWide(d) == NoiseScaled(d, 40)

\* const noise = (rng()-0.5)*20
labNoise(d) == NoiseScaled(d, 20)

labCoerceNaNOnly(v) == IF v.k = "nan" THEN Fin(0, 0) ELSE v

\* if (Number.isNaN(v) || !Number.isFinite(v)) v = 0
labCoerce(v) == IF v.k = "nan" \/ v.k # "fin" THEN Fin(0, 0) ELSE v

labClampUpperOnly(v) == LMin(Fin(160, 0), v)

\* v = Math.max(0, Math.min(160, v))
labClamp(v) == LMax(Fin(0, 0), LMin(Fin(160, 0), v))

simulateLabEarlyReturn(x, g) ==
    IF x.k # "fin" THEN <<Fin(0, 0), g, <<0, 0>>>>
    ELSE LET r == RngCall(g)
         IN  <<labClamp(labCoerce(LAddFin(x, labNoise(r[1])))), r[2], r[1]>>

\* simulateLab(x, rng): <<the value returned, the generator afterwards,
\* the value rng() returned>>
simulateLab(x, g) ==
    LET r == RngCall(g)
    IN  <<labClamp(labCoerce(LAddFin(x, labNoise(r[1])))), r[2], r[1]>>

---------------------------------------------------------------------------
(* SpecLab: simulateLab called repeatedly on one generator *)

MaxLabCalls == 2

\* finite x around both clamps and inside the range, 159.5, and the three
\* non-finite values
LabInputs ==
    {Fin(x, 0) : x \in {-1000, -11, -10, -9, 0, 75, 150, 151, 160, 169, 170, 171, 1000}}
        \cup {Fin(159, 2^29), LNaN, LPosInf, LNegInf}

InitLab ==
    /\ lRng0 \in RngInits
    /\ lRng = lRng0
    /\ lX = <<>> /\ lDraw = <<>> /\ lRet = <<>>
    /\ lCount = 0
    /\ IdleRng /\ IdleSeq /\ IdleFold /\ IdleBb /\ IdleHash /\ IdleAct /\ IdleUi

\* const lab = simulateLab(x, rng)
CallSimulateLab(x) ==
    /\ lCount < MaxLabCalls
    /\ LET r == simulateLab(x, lRng)
       IN  /\ lRet' = <<r[1]>>
           /\ lRng' = r[2]
           /\ lDraw' = <<r[3]>>
    /\ lX' = <<x>>
    /\ lCount' = lCount + 1
    /\ UNCHANGED <<lRng0, rngVars, seqVars, foldVars, bbVars, hashVars, actVars, uiVars>>

NextLab == \E x \in LabInputs : CallSimulateLab(x)

SpecLab == InitLab /\ [][NextLab]_vars

---------------------------------------------------------------------------
(* buildBackbone.  A point [x, y, z] is kept as the position i and the     *)
(* four draws it is computed from: x = cos(1.8 i) * (2 + 0.2 rJ)           *)
(* + (xJ - 0.5) * 0.15, y = sin(1.8 i) * (2 + 0.2 rJ) + (yJ - 0.5) * 0.15, *)
(* z = 0.7 i + (zJ - 0.5) * 0.1.  The trigonometry is not evaluated.       *)

\* seed >>> 0 as a JavaScript number
Uint32Of(seed) == <<0, seed[2], seed[3]>>

\* the loop of buildBackbone from index i up to n: <<points, the generator>>
RECURSIVE buildBackboneLoop(_, _, _, _)
buildBackboneLoopSwapped(i, n, g, points) ==
    IF i < n
    THEN LET r1 == RngCall(g)
             r2 == RngCall(r1[2])
             r3 == RngCall(r2[2])
             r4 == RngCall(r3[2])
             p  == [i |-> i, rJ |-> r2[1], xJ |-> r1[1], yJ |-> r3[1], zJ |-> r4[1]]
         IN  buildBackboneLoop(i + 1, n, r4[2], Append(points, p))
    ELSE <<points, g>>

buildBackboneLoop(i, n, g, points) ==
    IF i < n
    THEN LET r1 == RngCall(g)
             r2 == RngCall(r1[2])
             r3 == RngCall(r2[2])
             r4 == RngCall(r3[2])
             p  == [i |-> i, rJ |-> r1[1], xJ |-> r2[1], yJ |-> r3[1], zJ |-> r4[1]]
         IN  buildBackboneLoop(i + 1, n, r4[2], Append(points, p))
    ELSE <<points, g>>

buildBackboneShort(seq, seed) ==
    IF seq = <<>> THEN <<>>
    ELSE buildBackboneLoop(0, Len(seq) - 1, Mulberry32Rng(Uint32Of(seed)), <<>>)[1]

\* buildBackbone(seq, seed)
buildBackbone(seq, seed) ==
    IF seq = <<>> THEN <<>>
    ELSE buildBackboneLoop(0, Len(seq), Mulberry32Rng(Uint32Of(seed)), <<>>)[1]

\* the generators that exist, with generator g in slot s
Put(heap, s, g) ==
    [i \in 1 .. (IF s > Len(heap) THEN s ELSE Len(heap)) |-> IF i = s THEN g ELSE heap[i]]

backboneSlotCaller(heap) == 1

\* the slot of the closure that mulberry32(seed >>> 0) makes inside
\* buildBackbone: a new one, bound to the local const rng
backboneSlot(heap) == Len(heap) + 1

\* the generators that exist after buildBackbone(seq, seed) has run
buildBackboneHeap(seq, seed, heap) ==
    IF seq = <<>> THEN heap
    ELSE LET s  == backboneSlot(heap)
             h1 == Put(heap, s, Mulberry32Rng(Uint32Of(seed)))
         IN  Put(h1, s, buildBackboneLoop(0, Len(seq), h1[s], <<>>)[2])

---------------------------------------------------------------------------
(* SpecBackbone: buildBackbone applied to a sequence and a seed, by a      *)
(* caller that holds a generator of its own and draws from it before and   *)
(* after                                                                   *)

MaxBbLen == 3
MaxCallerDraws == 2

\* the caller's seeds: 7 (the seed of the tests panel's backbone) and 42
CallerSeeds == { <<0, 0, 7>>, <<0, 0, 42>> }

BbChars == {"A", "K"}

\* every sequence over BbChars of up to MaxBbLen characters, the empty one
\* included, and the 9-mer of the tests panel
BackboneSeqs ==
    UNION {[1 .. n -> BbChars] : n \in 0 .. MaxBbLen}
        \cup {<<"A", "C", "D", "E", "F", "G", "H", "I", "K">>}

InitBackbone ==
    /\ bSeq \in BackboneSeqs
    /\ bSeed \in Seeds
    /\ bPts = <<>>
    /\ bCaller0 \in {Mulberry32Rng(c) : c \in CallerSeeds}
    /\ bHeap = <<bCaller0>>
    /\ bCallerDrawn = <<>>
    /\ bBuiltAt = -1
    /\ IdleRng /\ IdleSeq /\ IdleFold /\ IdleLab /\ IdleHash /\ IdleAct /\ IdleUi

\* const pts = buildBackbone(seq, seed)
CallBuildBackbone ==
    /\ bPts = <<>>
    /\ bPts' = <<buildBackbone(bSeq, bSeed)>>
    /\ bHeap' = buildBackboneHeap(bSeq, bSeed, bHeap)
    /\ bBuiltAt' = Len(bCallerDrawn)
    /\ UNCHANGED <<bSeq, bSeed, bCaller0, bCallerDrawn, rngVars, seqVars, foldVars, labVars, hashVars, actVars, uiVars>>

\* the caller calls its own generator
CallerDraw ==
    /\ Len(bCallerDrawn) < MaxCallerDraws
    /\ LET r == RngCall(bHeap[1])
       IN  /\ bCallerDrawn' = Append(bCallerDrawn, r[1])
           /\ bHeap' = Put(bHeap, 1, r[2])
    /\ UNCHANGED <<bSeq, bSeed, bPts, bCaller0, bBuiltAt, rngVars, seqVars, foldVars, labVars, hashVars, actVars, uiVars>>

NextBackbone == CallBuildBackbone \/ CallerDraw

SpecBackbone == InitBackbone /\ [][NextBackbone]_vars

---------------------------------------------------------------------------
(* hashPrompt.  A prompt is the sequence of its UTF-16 char codes.  The     *)
(* value returned is the quotient <<n, d>> of two integers kept as pairs    *)
(* <<hi, lo>>: n the accumulator read as an integer, d the divisor.         *)

\* 2166136261 = 0x811C9DC5
OffsetBasis == <<33052, 40389>>

\* 16777619 = 0x01000193
FnvPrime == <<256, 403>>

\* 0xFFFFFFFF
HashDivisor == <<65535, 65535>>

\* h after the loop of hashPrompt over the char codes of prompt
RECURSIVE hashPromptLoop(_, _)
hashPromptLoop(prompt, h) ==
    IF prompt = <<>> \/ h[1] < 0 THEN h
    ELSE hashPromptLoop(Tail(prompt), Imul(XorW(h, <<0, Head(prompt)>>), FnvPrime))

hashPromptSigned(prompt) ==
    <<ToInt32(hashPromptLoop(prompt, OffsetBasis)), HashDivisor>>

hashPrompt(prompt) ==
    <<ToUint32(hashPromptLoop(prompt, OffsetBasis)), HashDivisor>>

---------------------------------------------------------------------------
(* SpecHash: hashPrompt applied to a prompt *)

MaxPromptLen == 3

\* the char codes of "a" and of NUL, the largest char code, and a CJK one
PromptCodes == {97, 0, 65535, 20013}

RECURSIVE PromptsUpTo(_)
PromptsUpTo(n) ==
    IF n = 0 THEN {<<>>}
    ELSE LET ps == PromptsUpTo(n - 1)
         IN  ps \cup {Append(q, c) : q \in ps, c \in PromptCodes}

\* "foobar", "U[-_4" and the two-unit prompt U+AF4E U+2BB4
PromptFoobar  == <<102, 111, 111, 98, 97, 114>>
PromptAllOnes == <<85, 91, 45, 95, 52>>
PromptTwoUnit == <<44878, 11188>>

Prompts == PromptsUpTo(MaxPromptLen) \cup {PromptFoobar, PromptAllOnes, PromptTwoUnit}

InitHash ==
    /\ hPrompt \in Prompts
    /\ hOut = <<>>
    /\ IdleRng /\ IdleSeq /\ IdleFold /\ IdleLab /\ IdleBb /\ IdleAct /\ IdleUi

CallHashPrompt ==
    /\ hOut = <<>>
    /\ hOut' = <<hashPrompt(hPrompt)>>
    /\ UNCHANGED <<hPrompt, rngVars, seqVars, foldVars, labVars, bbVars, actVars, uiVars>>

NextHash == CallHashPrompt

SpecHash == InitHash /\ [][NextHash]_vars

---------------------------------------------------------------------------
(* toyActivity.  The value returned, 0.7 * fold + 20 * ph + motif, is kept  *)
(* as the record [rat, ph]: rat the exact fraction 0.7 * fold + motif and   *)
(* ph the quotient hashPrompt returned; it stands for                       *)
(* rat + 20 * ph[1] / ph[2].                                                *)

\* ['GL','GP','KR','HG','FY']
Motifs == << <<"G", "L">>, <<"G", "P">>, <<"K", "R">>, <<"H", "G">>, <<"F", "Y">> >>

\* seq.includes(m)
Includes(seq, m) ==
    \E i \in 1 .. (Len(seq) - Len(m) + 1) : SubSeq(seq, i, i + Len(m) - 1) = m

\* the number of places of seq where m occurs
Occurrences(seq, m) ==
    Cardinality({i \in 1 .. (Len(seq) - Len(m) + 1) : SubSeq(seq, i, i + Len(m) - 1) = m})

\* motif after the loop of toyActivity over the motifs ms
RECURSIVE motifLoop(_, _, _)
motifLoopPerOccurrence(seq, ms, motif) ==
    IF ms = <<>> THEN motif
    ELSE motifLoop(seq, Tail(ms), motif + 5 * Occurrences(seq, Head(ms)))

motifLoop(seq, ms, motif) ==
    IF ms = <<>> THEN motif
    ELSE motifLoop(seq, Tail(ms), IF Includes(seq, Head(ms)) THEN motif + 5 ELSE motif)

motifBonus(seq) == motifLoop(seq, Motifs, 0)

activityBaseUnscaled(fold, ph, motif) ==
    [rat |-> FAdd(fold, <<motif, 1>>), ph |-> ph]

\* const base = 0.7*fold + 20*ph + motif
activityBase(fold, ph, motif) ==
    [rat |-> FAdd(FMul(<<7, 10>>, fold), <<motif, 1>>), ph |-> ph]

toyActivity(seq, prompt) ==
    activityBase(toyFoldScore(seq), hashPrompt(prompt), motifBonus(seq))

toyActivityCallDrawing(seq, prompt, g) ==
    LET r == RngCall(g)
    IN  <<[toyActivity(seq, prompt) EXCEPT !.ph = <<r[1], HashDivisor>>], r[2]>>

\* a call of toyActivity in a program that holds the generator g:
\* <<value returned, the generator afterwards>>
toyActivityCall(seq, prompt, g) == <<toyActivity(seq, prompt), g>>

---------------------------------------------------------------------------
(* SpecActivity: toyActivity called repeatedly with the same arguments by a *)
(* program that draws from a generator between the calls                    *)

MaxActCalls == 2
MaxActDraws == 2

\* "GLGPKRHGFY": every motif once
SeqAllMotifs == <<"G", "L", "G", "P", "K", "R", "H", "G", "F", "Y">>

\* "GLGPKRHGFYDDDAAAAAAG": every motif, 9 hydrophobic residues of 20, 3 basic
\* and 3 acidic ones
SeqBest == SeqAllMotifs \o Rep("D", 3) \o Rep("A", 6) \o <<"G">>

ActSeqs ==
    { <<>>, <<"G", "L">>, <<"L", "G">>, <<"G", "L", "G", "L">>,
      <<"H", "G", "L", "G", "L">>, <<"K", "R", "G", "P">>, <<"F", "Y", "F", "Y">>,
      <<"A", "C", "D", "E", "F", "G", "H", "I", "K">>,
      SeqAllMotifs, SeqBest, Rep("K", 10), Rep("A", 9) \o Rep("G", 11) }

\* "", "a", "foobar", "U[-_4"
ActPrompts == { <<>>, <<97>>, PromptFoobar, PromptAllOnes }

InitActivity ==
    /\ aSeq \in ActSeqs
    /\ aPrompt \in ActPrompts
    /\ aRng = Mulberry32Rng(<<0, 0, 42>>)
    /\ aCalls = <<>>
    /\ IdleRng /\ IdleSeq /\ IdleFold /\ IdleLab /\ IdleBb /\ IdleHash /\ IdleUi

CallToyActivity ==
    /\ Len(aCalls) < MaxActCalls
    /\ LET r == toyActivityCall(aSeq, aPrompt, aRng)
       IN  /\ aCalls' = Append(aCalls, [ret |-> r[1], motif |-> motifBonus(aSeq),
                                        at |-> aRng.calls])
           /\ aRng' = r[2]
    /\ UNCHANGED <<aSeq, aPrompt, rngVars, seqVars, foldVars, labVars, bbVars, hashVars, uiVars>>

\* the program draws from its generator
ActDraw ==
    /\ aRng.calls < MaxActDraws
    /\ aRng' = RngCall(aRng)[2]
    /\ UNCHANGED <<aSeq, aPrompt, aCalls, rngVars, seqVars, foldVars, labVars, bbVars, hashVars, uiVars>>

NextActivity == CallToyActivity \/ ActDraw

SpecActivity == InitActivity /\ [][NextActivity]_vars

---------------------------------------------------------------------------
(* SpecRng: two generators constructed by mulberry32 and called in any order *)

MaxDraws == 3

Gens == {1, 2}

StateSlotShared(g) == 1

\* the variable a captured by generator g: the parameter of its own
\* mulberry32 activation, one per construction
StateSlot(g) == g

\* mulberry32(seed) for generator g: a closure over a fresh a = seed
Construct(c, g, seed) == [s \in DOMAIN c \cup {StateSlot(g)} |->
                            IF s = StateSlot(g) THEN seed ELSE c[s]]

InitRng ==
    /\ seedOf \in [Gens -> Seeds]
    /\ cell = Construct(Construct(<<>>, 1, seedOf[1]), 2, seedOf[2])
    /\ drawn = [g \in Gens |-> <<>>]
    /\ IdleSeq /\ IdleFold /\ IdleLab /\ IdleBb /\ IdleHash /\ IdleAct /\ IdleUi

DrawAdvancingAll(g) ==
    /\ Len(drawn[g]) < MaxDraws
    /\ LET r == mulberry32Call(cell[StateSlot(g)])
       IN  /\ cell' = [s \in DOMAIN cell |-> r[2]]
           /\ drawn' = [drawn EXCEPT ![g] = Append(@, r[1])]
    /\ UNCHANGED <<seedOf, seqVars, foldVars, labVars, bbVars, hashVars, actVars, uiVars>>

\* one call g() of generator g
Draw(g) ==
    /\ Len(drawn[g]) < MaxDraws
    /\ LET r == mulberry32Call(cell[StateSlot(g)])
       IN  /\ cell' = [cell EXCEPT ![StateSlot(g)] = r[2]]
           /\ drawn' = [drawn EXCEPT ![g] = Append(@, r[1])]
    /\ UNCHANGED <<seedOf, seqVars, foldVars, labVars, bbVars, hashVars, actVars, uiVars>>

NextRng == \E g \in Gens : Draw(g)

SpecRng == InitRng /\ [][NextRng]_vars

---------------------------------------------------------------------------
(* safeSize.  A JavaScript value is a record [t, n, s]: t is "undefined",   *)
(* "number" or "string", n the number (a fraction, NaN, PosInf or NegInf)   *)
(* and s the string, as the sequence of its characters.                     *)

Undef  == [t |-> "undefined", n |-> <<0, 1>>, s |-> <<>>]
Num(x) == [t |-> "number", n |-> x, s |-> <<>>]
Str(cs) == [t |-> "string", n |-> <<0, 1>>, s |-> cs]

DEFAULT_ICON_SIZE == 16

Digits == <<"0", "1", "2", "3", "4", "5", "6", "7", "8", "9">>

DigitVal(c) == (CHOOSE i \in 1 .. 10 : Digits[i] = c) - 1

IsDigits(cs) == \A i \in 1 .. Len(cs) : \E j \in 1 .. 10 : Digits[j] = cs[i]

\* the value of a string of decimal digits
RECURSIVE DecValue(_, _)
DecValue(cs, acc) ==
    IF cs = <<>> THEN acc ELSE DecValue(Tail(cs), 10 * acc + DigitVal(Head(cs)))

RECURSIVE Pow10(_)
Pow10(k) == IF k = 0 THEN 1 ELSE 10 * Pow10(k - 1)

\* the string without its leading and trailing white space
RECURSIVE Trim(_)
Trim(cs) ==
    IF cs = <<>> THEN cs
    ELSE IF Head(cs) = " " THEN Trim(Tail(cs))
    ELSE IF cs[Len(cs)] = " " THEN Trim(SubSeq(cs, 1, Len(cs) - 1))
    ELSE cs

\* the position of the first "." of cs, Len(cs) + 1 if there is none
FirstDot(cs) ==
    IF \E i \in 1 .. Len(cs) : cs[i] = "."
    THEN CHOOSE i \in 1 .. Len(cs) : cs[i] = "." /\ \A j \in 1 .. (i - 1) : cs[j] # "."
    ELSE Len(cs) + 1

\* an unsigned decimal literal: digits, optionally a "." and more digits,
\* at least one digit in all; NaN for anything else
UnsignedToNumber(cs) ==
    LET d  == FirstDot(cs)
        ip == SubSeq(cs, 1, d - 1)
        fp == SubSeq(cs, d + 1, Len(cs))
    IN  IF cs = <<"I", "n", "f", "i", "n", "i", "t", "y">> THEN PosInf
        ELSE IF IsDigits(ip) /\ IsDigits(fp) /\ Len(ip) + Len(fp) >= 1
        THEN Frac(DecValue(ip, 0) * Pow10(Len(fp)) + DecValue(fp, 0), Pow10(Len(fp)))
        ELSE NaN

\* Number(s) for a string s without exponent and without radix prefix:
\* 0 for a blank string, else the signed decimal literal or Infinity that
\* the trimmed string spells, else NaN
StringToNumber(cs) ==
    LET t == Trim(cs)
    IN  IF t = <<>> THEN <<0, 1>>
        ELSE IF Head(t) = "-"
        THEN LET u == UnsignedToNumber(Tail(t))
             IN  IF u = NaN THEN NaN ELSE <<-u[1], u[2]>>
        ELSE IF Head(t) = "+" THEN UnsignedToNumber(Tail(t))
        ELSE UnsignedToNumber(t)

safeSizeNoSignCheck(v, fallback) ==
    LET fb == IF fallback.t = "undefined" THEN Num(<<DEFAULT_ICON_SIZE, 1>>) ELSE fallback
        n  == IF v.t = "string" THEN Num(StringToNumber(v.s)) ELSE v
    IN  IF n.t = "number" /\ IsFinite(n.n) THEN n ELSE fb

\* safeSize(v, fallback); fallback is Undef when the argument is left out
safeSize(v, fallback) ==
    LET fb == IF fallback.t = "undefined" THEN Num(<<DEFAULT_ICON_SIZE, 1>>) ELSE fallback
        n  == IF v.t = "string" THEN Num(StringToNumber(v.s)) ELSE v
    IN  IF n.t = "number" /\ IsFinite(n.n) /\ n.n[1] > 0 THEN n ELSE fb

---------------------------------------------------------------------------
(* SpecSize: safeSize applied to a value and a fallback *)

MaxStrLen == 2

SizeChars == {"2", "0", "5", "-", "+", " ", ".", "z"}

RECURSIVE StringsUpTo(_)
StringsUpTo(n) ==
    IF n = 0 THEN {<<>>}
    ELSE LET ss == StringsUpTo(n - 1)
         IN  ss \cup {Append(q, c) : q \in ss, c \in SizeChars}

SizeStrings ==
    StringsUpTo(MaxStrLen) \cup
    { <<"b", "a", "d">>, <<" ", "2", "0", " ">>, <<"2", ".", "5">>, <<"-", ".", "5">>,
      <<"I", "n", "f", "i", "n", "i", "t", "y">>,
      <<"-", "I", "n", "f", "i", "n", "i", "t", "y">> }

SizeNumbers == { <<0, 1>>, <<-5, 1>>, <<20, 1>>, <<5, 2>>, <<1, 1000>>, NaN, PosInf, NegInf }

SizeValues == {Undef} \cup {Num(x) : x \in SizeNumbers} \cup {Str(cs) : cs \in SizeStrings}

SizeFallbacks == { Undef, Num(<<24, 1>>), Num(<<0, 1>>), Num(NaN) }

InitSize ==
    /\ zV \in SizeValues
    /\ zFallback \in SizeFallbacks
    /\ zOut = <<>>
    /\ IdleCore /\ IdleText /\ IdlePage /\ IdleApp

CallSafeSize ==
    /\ zOut = <<>>
    /\ zOut' = <<safeSize(zV, zFallback)>>
    /\ UNCHANGED <<zV, zFallback, coreVars, textVars, pageVars, appVars>>

NextSize == CallSafeSize

SpecSize == InitSize /\ [][NextSize]_vars

---------------------------------------------------------------------------
(* The legacy page (src/script.js): textToProtein.  A text is the sequence  *)
(* of its UTF-16 char codes.                                                *)

aminoAcids ==
    << "A", "R", "N", "D", "C", "E", "Q", "G", "H", "I",
       "L", "K", "M", "F", "P", "S", "T", "W", "Y", "V" >>

\* sequence after the loop of textToProtein from the char codes text on
RECURSIVE textToProteinLoop(_, _)
textToProteinLoopAlphabet(text, sequence) ==
    IF text = <<>> THEN sequence
    ELSE textToProteinLoop(Tail(text),
                           Append(sequence, ALPHABET[(Head(text) % Len(ALPHABET)) + 1]))

textToProteinLoop(text, sequence) ==
    IF text = <<>> THEN sequence
    ELSE textToProteinLoop(Tail(text),
                           Append(sequence, aminoAcids[(Head(text) % Len(aminoAcids)) + 1]))

textToProtein(text) ==
    IF text = <<>> THEN <<>> ELSE textToProteinLoop(text, <<>>)

---------------------------------------------------------------------------
(* SpecText: textToProtein applied to a text *)

MaxTextLen == 3

\* the char codes of "H", "E", "L", "O", of the space, of a CJK character
\* and the largest char code
TextCodes == {72, 69, 76, 79, 32, 20013, 65535}

RECURSIVE TextsUpTo(_)
TextsUpTo(n) ==
    IF n = 0 THEN {<<>>}
    ELSE LET ts == TextsUpTo(n - 1)
         IN  ts \cup {Append(q, c) : q \in ts, c \in TextCodes}

\* "HELLO"
TextHello == <<72, 69, 76, 76, 79>>

Texts == TextsUpTo(MaxTextLen) \cup {TextHello}

InitText ==
    /\ tText \in Texts
    /\ tOut = <<>>
    /\ IdleCore /\ IdleSize /\ IdlePage /\ IdleApp

CallTextToProtein ==
    /\ tOut = <<>>
    /\ tOut' = <<textToProtein(tText)>>
    /\ UNCHANGED <<tText, coreVars, sizeVars, pageVars, appVars>>

NextText == CallTextToProtein

SpecText == InitText /\ [][NextText]_vars

---------------------------------------------------------------------------
(* The legacy page: formatSequence, create3DProtein and generateProtein.    *)
(* A position is a record [a, y, mid]: for a sphere a is its helix angle in *)
(* degrees modulo 360 (x = 10 cos a, z = 10 sin a) and y its height; the    *)
(* position of a connection is the midpoint of the two positions in mid.    *)
(* A child of proteinMesh is a record [kind, i, aa, pos, ends]: the sphere  *)
(* of residue i (aa its letter, which fixes its colour) or the connection   *)
(* added at step i between the positions ends.                              *)

\* sequence.replace(/(.{10})/g, '$1 '): a space after every full group of 10
RECURSIVE InsertSpaces(_)
InsertSpaces(sequence) ==
    IF Len(sequence) < 10 THEN sequence
    ELSE SubSeq(sequence, 1, 10) \o <<" ">> \o InsertSpaces(SubSeq(sequence, 11, Len(sequence)))

formatSequence(sequence) == Trim(InsertSpaces(sequence))

\* the char codes String.prototype.trim removes
WhiteSpaceCodes == {9, 10, 11, 12, 13, 32, 160, 5760, 8232, 8233, 8239, 8287, 12288, 65279}
                   \cup (8192 .. 8202)

\* text.trim() on char codes
RECURSIVE TrimCodes(_)
TrimCodes(text) ==
    IF text = <<>> THEN text
    ELSE IF Head(text) \in WhiteSpaceCodes THEN TrimCodes(Tail(text))
    ELSE IF text[Len(text)] \in WhiteSpaceCodes THEN TrimCodes(SubSeq(text, 1, Len(text) - 1))
    ELSE text

\* sphere.position of residue i in a sequence of n
SpherePosition(i, n) == [a |-> (i * 100) % 360, y |-> (i * 2) - (n * 1), mid |-> <<>>]

\* createConnection(pos1, pos2): a cylinder placed half way from pos1 to pos2
createConnection(i, pos1, pos2) ==
    [kind |-> "connection", i |-> i, aa |-> "",
     pos |-> [a |-> -1, y |-> 0, mid |-> <<pos1, pos2>>], ends |-> <<pos1, pos2>>]

\* proteinMesh.children after the loop of create3DProtein from residue i on
RECURSIVE create3DProteinLoop(_, _, _)
create3DProteinLoop(i, sequence, children) ==
    IF i < Len(sequence)
    THEN LET sphere == [kind |-> "sphere", i |-> i, aa |-> sequence[i + 1],
                        pos |-> SpherePosition(i, Len(sequence)), ends |-> <<>>]
             ch1    == Append(children, sphere)
         IN  IF i > 0
             THEN LET prevSphere == ch1[(i - 1) + 1]
                  IN  create3DProteinLoop(i + 1, sequence,
                          Append(ch1, createConnection(i, prevSphere.pos, sphere.pos)))
             ELSE create3DProteinLoop(i + 1, sequence, ch1)
    ELSE children

\* create3DProtein(sequence): the new this.proteinMesh, which replaces the
\* old one in the scene; centring moves the group, not its children
create3DProtein(sequence) ==
    [sequence |-> sequence, children |-> create3DProteinLoop(0, sequence, <<>>)]

---------------------------------------------------------------------------
(* SpecPage: the legacy page after DOMContentLoaded, under clicks on the    *)
(* generate button and the test buttons, typing, and the firing of timers   *)

MaxRequests == 2
MaxAlerts   == 1

\* "", " ", "HI", " HI ", "HELLO", "HELLO WORLD!"
PageTexts ==
    { <<>>, <<32>>, <<72, 73>>, <<32, 72, 73, 32>>, TextHello,
      <<72, 69, 76, 76, 79, 32, 87, 79, 82, 76, 68, 33>> }

\* the data-text values of the test buttons
TestTexts == { <<>>, <<72, 73>>, TextHello }

ButtonIdle == [disabled |-> FALSE, textContent |-> "Generate Protein", loading |-> FALSE]
ButtonBusy == [disabled |-> TRUE, textContent |-> "Generating...", loading |-> TRUE]

\* the constructor has run: the listeners are set and setup3DViewer has
\* built the structure of 'HELLO'; the button and the display are as the
\* markup has them
InitPage ==
    /\ pInput \in PageTexts
    /\ pBtn = ButtonIdle
    /\ pTimers = <<>>
    /\ pDisplay = <<>>
    /\ pMesh = create3DProtein(<<"H", "E", "L", "L", "O">>)
    /\ pLast = <<>>
    /\ pCounts = [alerts |-> 0, fired |-> 0, pending |-> 0]
    /\ IdleCore /\ IdleSize /\ IdleText /\ IdleApp

\* generateProtein() with textInput.value = input
generateProtein(input) ==
    LET text == TrimCodes(input)
    IN  IF text = <<>>
        THEN /\ pCounts.alerts < MaxAlerts
             /\ pCounts' = [pCounts EXCEPT !.alerts = @ + 1]
             /\ UNCHANGED <<pBtn, pTimers, pDisplay, pMesh, pLast>>
        ELSE /\ Len(pLast) < MaxRequests
             /\ pBtn' = ButtonBusy
             /\ pTimers' = Append(pTimers, text)
             /\ pLast' = Append(pLast, text)
             /\ pCounts' = [pCounts EXCEPT
                              !.pending = IF Len(pTimers) + 1 > @ THEN Len(pTimers) + 1 ELSE @]
             /\ UNCHANGED <<pDisplay, pMesh>>

\* a click on the generate button; a disabled button receives none
ClickGenerate ==
    /\ ~pBtn.disabled
    /\ generateProtein(pInput)
    /\ UNCHANGED <<pInput, coreVars, sizeVars, textVars, appVars>>

\* a click on the test button with data-text text
ClickTest(text) ==
    /\ pInput' = text
    /\ generateProtein(text)
    /\ UNCHANGED <<coreVars, sizeVars, textVars, appVars>>

\* the user edits the text area
TypeText(text) ==
    /\ pInput' = text
    /\ pInput # text
    /\ UNCHANGED <<pBtn, pTimers, pDisplay, pMesh, pLast, pCounts,
                   coreVars, sizeVars, textVars, appVars>>

TimerFiresNewestFirst ==
    /\ pTimers # <<>>
    /\ LET text            == pTimers[Len(pTimers)]
           proteinSequence == textToProtein(text)
       IN  /\ pDisplay' = formatSequence(proteinSequence)
           /\ pMesh' = create3DProtein(proteinSequence)
    /\ pBtn' = ButtonIdle
    /\ pTimers' = SubSeq(pTimers, 1, Len(pTimers) - 1)
    /\ pCounts' = [pCounts EXCEPT !.fired = @ + 1]
    /\ UNCHANGED <<pInput, pLast, coreVars, sizeVars, textVars, appVars>>

\* the oldest pending timer fires: timers of equal delay run in the order
\* they were set
TimerFires ==
    /\ pTimers # <<>>
    /\ LET text            == Head(pTimers)
           proteinSequence == textToProtein(text)
       IN  /\ pDisplay' = formatSequence(proteinSequence)
           /\ pMesh' = create3DProtein(proteinSequence)
    /\ pBtn' = ButtonIdle
    /\ pTimers' = Tail(pTimers)
    /\ pCounts' = [pCounts EXCEPT !.fired = @ + 1]
    /\ UNCHANGED <<pInput, pLast, coreVars, sizeVars, textVars, appVars>>

NextPage ==
    \/ ClickGenerate
    \/ \E text \in TestTexts : ClickTest(text)
    \/ \E text \in PageTexts : TypeText(text)
    \/ TimerFires

SpecPage == InitPage /\ [][NextPage]_vars

---------------------------------------------------------------------------
(* Natural numbers of any size, for comparing sums of fractions exactly: a  *)
(* sequence of digits in base 2^15, least significant first.                *)

RECURSIVE BOfNat(_)
BOfNat(n) == IF n = 0 THEN <<>> ELSE <<n % Two15>> \o BOfNat(n \div Two15)

\* a + b + c for a carry c
RECURSIVE BAddC(_, _, _)
BAddC(a, b, c) ==
    IF a = <<>> /\ b = <<>> THEN BOfNat(c)
    ELSE LET x == (IF a = <<>> THEN 0 ELSE Head(a)) + (IF b = <<>> THEN 0 ELSE Head(b)) + c
         IN  <<x % Two15>> \o BAddC(IF a = <<>> THEN a ELSE Tail(a),
                                    IF b = <<>> THEN b ELSE Tail(b), x \div Two15)

BAdd(a, b) == BAddC(a, b, 0)

\* a * m + c for 0 <= m < 2^16 and a carry c
RECURSIVE BMulC(_, _, _)
BMulC(a, m, c) ==
    IF a = <<>> THEN BOfNat(c)
    ELSE LET x == Head(a) * m + c
         IN  <<x % Two15>> \o BMulC(Tail(a), m, x \div Two15)

RECURSIVE BMul(_, _)
BMul(a, b) ==
    IF b = <<>> THEN <<>>
    ELSE BAdd(BMulC(a, Head(b), 0), <<0>> \o BMul(a, Tail(b)))

\* -1, 0 or 1 as a is below, equal to or above b
RECURSIVE BCmp(_, _)
BCmp(a, b) ==
    IF a = <<>> /\ b = <<>> THEN 0
    ELSE LET c == BCmp(IF a = <<>> THEN a ELSE Tail(a), IF b = <<>> THEN b ELSE Tail(b))
             x == IF a = <<>> THEN 0 ELSE Head(a)
             y == IF b = <<>> THEN 0 ELSE Head(b)
         IN  IF c # 0 THEN c ELSE IF x < y THEN -1 ELSE IF x > y THEN 1 ELSE 0

\* hi * 2^16 + lo for a pair of 16-bit halves
BOfWord(w) == BAdd(BOfNat(w[2]), <<0>> \o BOfNat(2 * w[1]))

\* 2^32
BTwo32 == <<0, 0, 4>>

---------------------------------------------------------------------------
(* App: the handlers generate, screen, lab and reset.  The numbers of the   *)
(* state (count, lengthAA, seed) are fractions; a row is a record           *)
(* [id, seq, fold, pred, lab] with id and seq sequences of characters, fold *)
(* a fraction, pred a value of toyActivity and lab <<>> while the row has   *)
(* no lab field, else <<the value>>.                                        *)

\* the decimal digits of a natural number
RECURSIVE NatToString(_)
NatToString(n) ==
    IF n < 10 THEN <<Digits[n + 1]>> ELSE NatToString(n \div 10) \o <<Digits[(n % 10) + 1]>>

\* the decimal digits of r / q for 0 <= r < q, q a product of 2s and 5s
RECURSIVE FractionDigits(_, _)
FractionDigits(r, q) ==
    IF r = 0 THEN <<>>
    ELSE <<Digits[((r * 10) \div q) + 1]>> \o FractionDigits((r * 10) % q, q)

\* `${x}` for a finite number x below 10^21 whose decimal expansion ends
NumberToString(x) ==
    LET n == Abs(x[1])
    IN  (IF x[1] < 0 THEN <<"-">> ELSE <<>>)
        \o NatToString(n \div x[2])
        \o (IF n % x[2] = 0 THEN <<>> ELSE <<".">> \o FractionDigits(n % x[2], x[2]))

\* Number(e.target.value) || 0
NumberOrZero(cs) ==
    LET n == StringToNumber(cs) IN IF n = NaN \/ n[1] = 0 THEN <<0, 1>> ELSE n

\* x < y for finite fractions
FLt(x, y) == x[1] * y[2] < y[1] * x[2]

\* x >>> 0 for a finite fraction x of magnitude below 2^31: truncated toward
\* zero, then modulo 2^32, as the triple of an integer
ShiftRightZero(x) ==
    LET t == IF x[1] >= 0 THEN x[1] \div x[2] ELSE -((-x[1]) \div x[2])
    IN  Uint32Of(TNorm(0, 0, t))

\* pred: 0, as a value of the kind toyActivity returns
ZeroActivity == [rat |-> <<0, 1>>, ph |-> <<<<0, 0>>, HashDivisor>>]

\* { id, seq, fold: 0, pred: 0 } with id = `${seed}-${i}-${lengthAA}`
NewRow(seed, i, lengthAA, seq) ==
    [id   |-> NumberToString(seed) \o <<"-">> \o NatToString(i) \o <<"-">>
              \o NumberToString(lengthAA),
     seq  |-> seq, fold |-> <<0, 1>>, pred |-> ZeroActivity, lab |-> <<>>]

\* genSeq(lengthAA, rng) for a lengthAA that need not be an integer: the
\* loop of genSeq runs while i < len, so once for each integer i >= 0 below len
genSeqOf(lengthAA, g) ==
    genSeq(IF lengthAA[1] <= 0 THEN 0 ELSE (lengthAA[1] + lengthAA[2] - 1) \div lengthAA[2], g)

\* the loop of generate from index i on: the rows pushed
RECURSIVE generateLoop(_, _, _, _, _, _)
generateLoop(i, count, seed, lengthAA, g, out) ==
    IF FLt(<<i, 1>>, count)
    THEN LET r == genSeqOf(lengthAA, g)
         IN  generateLoop(i + 1, count, seed, lengthAA, r[2],
                          Append(out, NewRow(seed, i, lengthAA, r[1])))
    ELSE out

\* the rows generate() builds
generateRows(seed, count, lengthAA) ==
    generateLoop(0, count, seed, lengthAA, Mulberry32Rng(ShiftRightZero(seed)), <<>>)

\* rat * ph[2] + 20 * ph[1] * den(rat), the numerator of the activity x over
\* den(rat) * ph[2]; rat is never negative
ActivityNum(x) ==
    BAdd(BMul(BOfNat(x.rat[1]), BOfWord(x.ph[2])),
         BMulC(BMul(BOfWord(x.ph[1]), BOfNat(x.rat[2])), 20, 0))

ActivityDen(x) == BMul(BOfNat(x.rat[2]), BOfWord(x.ph[2]))

\* the sign of x - y for two activity values
ActivityCmp(x, y) ==
    BCmp(BMul(ActivityNum(x), ActivityDen(y)), BMul(ActivityNum(y), ActivityDen(x)))

sortInsertAscending(rows, r) ==
    LET later == {k \in 1 .. Len(rows) : ActivityCmp(r.pred, rows[k].pred) < 0}
        at    == IF later = {} THEN Len(rows) + 1
                 ELSE CHOOSE k \in later : \A j \in later : k <= j
    IN  SubSeq(rows, 1, at - 1) \o <<r>> \o SubSeq(rows, at, Len(rows))

\* rows with r put before the first row the comparator
\* (a,b)=> b.pred - a.pred orders after r
sortInsert(rows, r) ==
    LET later == {k \in 1 .. Len(rows) : ActivityCmp(r.pred, rows[k].pred) > 0}
        at    == IF later = {} THEN Len(rows) + 1
                 ELSE CHOOSE k \in later : \A j \in later : k <= j
    IN  SubSeq(rows, 1, at - 1) \o <<r>> \o SubSeq(rows, at, Len(rows))

\* .sort((a,b)=> b.pred - a.pred): the sort is stable
RECURSIVE sortByPred(_, _)
sortByPred(rows, sorted) ==
    IF rows = <<>> THEN sorted
    ELSE sortByPred(Tail(rows), sortInsert(sorted, Head(rows)))

\* rows.map(r => ({ ...r, fold, pred }))
scoreRows(rows, prompt) ==
    [k \in 1 .. Len(rows) |->
        [rows[k] EXCEPT !.fold = toyFoldScore(rows[k].seq),
                        !.pred = toyActivity(rows[k].seq, prompt)]]

\* the rows screen() builds
screenRows(rows, prompt) == sortByPred(scoreRows(rows, prompt), <<>>)

(* simulateLab(r.pred, rng) for a pred that is an activity value.  The      *)
(* value returned is a record [k, x, d]: k = "0" is 0, k = "160" is 160 and *)
(* k = "sum" is x + (d / 2^32 - 0.5) * 20, strictly between 0 and 160.      *)

LabZero == [k |-> "0", x |-> ZeroActivity, d |-> <<0, 0>>]
LabCap  == [k |-> "160", x |-> ZeroActivity, d |-> <<0, 0>>]

\* (x + d * 20 / 2^32) * den(x) * 2^32
LabScaledSum(x, d) ==
    BAdd(BMul(ActivityNum(x), BTwo32), BMulC(BMul(BOfWord(d), ActivityDen(x)), 20, 0))

\* m * den(x) * 2^32
LabScaled(x, m) == BMulC(BMul(ActivityDen(x), BTwo32), m, 0)

\* v = x + noise, coerced to 0 unless finite, then Math.max(0, Math.min(160, v)):
\* v <= 0 when x + d * 20 / 2^32 <= 10, v >= 160 when it is >= 170
labValue(x, d) ==
    IF ~IsFinite(x.rat) \/ x.ph[2] = <<0, 0>> THEN LabZero
    ELSE IF BCmp(LabScaledSum(x, d), LabScaled(x, 10)) <= 0 THEN LabZero
    ELSE IF BCmp(LabScaledSum(x, d), LabScaled(x, 170)) >= 0 THEN LabCap
    ELSE [k |-> "sum", x |-> x, d |-> d]

\* simulateLab(x, rng) on an activity value: <<the value returned, the
\* generator afterwards>>
simulateLabOf(x, g) ==
    LET r == RngCall(g) IN <<labValue(x, r[1]), r[2]>>

\* rows.map(r => ({ ...r, lab: simulateLab(r.pred, rng) })) from row i on
RECURSIVE labLoop(_, _, _, _)
labLoopTwoDraws(i, rows, g, out) ==
    IF i <= Len(rows)
    THEN LET r == simulateLabOf(rows[i].pred, RngCall(g)[2])
         IN  labLoop(i + 1, rows, r[2], Append(out, [rows[i] EXCEPT !.lab = <<r[1]>>]))
    ELSE out

labLoop(i, rows, g, out) ==
    IF i <= Len(rows)
    THEN LET r == simulateLabOf(rows[i].pred, g)
         IN  labLoop(i + 1, rows, r[2], Append(out, [rows[i] EXCEPT !.lab = <<r[1]>>]))
    ELSE out

\* the rows lab() builds, with rng = mulberry32((seed+999) >>> 0)
labRows(rows, seed) ==
    labLoop(1, rows, Mulberry32Rng(ShiftRightZero(FAdd(seed, <<999, 1>>))), <<>>)

---------------------------------------------------------------------------
(* SpecApp: the App component from its first render on, its handlers run in *)
(* any order, the two size fields already edited.  uPipe is a history       *)
(* variable: last names the handler that ran last, run counts how far the   *)
(* run generate, screen, lab has got with no change of an input and no      *)
(* other button in between, and steps counts the handlers run so far.       *)

MaxSteps == 6

\* 'short antimicrobial helix'
PromptDefault ==
    <<115, 104, 111, 114, 116, 32, 97, 110, 116, 105, 109, 105, 99, 114, 111, 98,
      105, 97, 108, 32, 104, 101, 108, 105, 120>>

\* what the user types into the prompt field
AppPrompts == {PromptDefault, <<97>>}

\* the values a number field hands to its onChange handler: "" while the
\* field holds no number, else the number typed
AppCounts  == {<<>>, <<"2", ".", "5">>}
AppLengths == {<<>>, <<"2", ".", "5">>}
AppSeeds   == {<<"4", "2">>, <<"7", ".", "5">>}

\* uPipe after the handler named last, the run then at place run
Pipe(last, run) == [last |-> last, run |-> run, steps |-> uPipe.steps + 1]

InitApp ==
    /\ IdleCore /\ IdleSize /\ IdleText /\ IdlePage
    /\ uPrompt = PromptDefault
    /\ uCount \in {NumberOrZero(value) : value \in AppCounts}
    /\ uLengthAA \in {NumberOrZero(value) : value \in AppLengths}
    /\ uSeed = <<42, 1>>
    /\ uRows = <<>>
    /\ uSel = <<>>
    /\ uPipe = [last |-> "init", run |-> 0, steps |-> 0]

\* onChange={(e)=>setPrompt(e.target.value)}
SetPrompt(text) ==
    /\ uPipe.steps < MaxSteps
    /\ uPrompt' = text
    /\ uPipe' = Pipe("input", 0)
    /\ UNCHANGED <<uCount, uLengthAA, uSeed, uRows, uSel>>
    /\ UNCHANGED <<coreVars, sizeVars, textVars, pageVars>>

\* onChange={(e)=>setCount(Number(e.target.value)||0)}
SetCount(value) ==
    /\ uPipe.steps < MaxSteps
    /\ uCount' = NumberOrZero(value)
    /\ uPipe' = Pipe("input", 0)
    /\ UNCHANGED <<uPrompt, uLengthAA, uSeed, uRows, uSel>>
    /\ UNCHANGED <<coreVars, sizeVars, textVars, pageVars>>

\* onChange={(e)=>setLengthAA(Number(e.target.value)||0)}
SetLengthAA(value) ==
    /\ uPipe.steps < MaxSteps
    /\ uLengthAA' = NumberOrZero(value)
    /\ uPipe' = Pipe("input", 0)
    /\ UNCHANGED <<uPrompt, uCount, uSeed, uRows, uSel>>
    /\ UNCHANGED <<coreVars, sizeVars, textVars, pageVars>>

\* onChange={(e)=>setSeed(Number(e.target.value)||0)}
SetSeed(value) ==
    /\ uPipe.steps < MaxSteps
    /\ uSeed' = NumberOrZero(value)
    /\ uPipe' = Pipe("input", 0)
    /\ UNCHANGED <<uPrompt, uCount, uLengthAA, uRows, uSel>>
    /\ UNCHANGED <<coreVars, sizeVars, textVars, pageVars>>

GenerateAppending ==
    /\ uPipe.steps < MaxSteps
    /\ uRows' = uRows \o generateRows(uSeed, uCount, uLengthAA)
    /\ uSel' = <<>>
    /\ uPipe' = Pipe("generate", 1)
    /\ UNCHANGED <<uPrompt, uCount, uLengthAA, uSeed>>
    /\ UNCHANGED <<coreVars, sizeVars, textVars, pageVars>>

GenerateKeepingSel ==
    /\ uPipe.steps < MaxSteps
    /\ uRows' = generateRows(uSeed, uCount, uLengthAA)
    /\ uPipe' = Pipe("generate", 1)
    /\ UNCHANGED <<uPrompt, uCount, uLengthAA, uSeed, uSel>>
    /\ UNCHANGED <<coreVars, sizeVars, textVars, pageVars>>

\* generate()
Generate ==
    /\ uPipe.steps < MaxSteps
    /\ uRows' = generateRows(uSeed, uCount, uLengthAA)
    /\ uSel' = <<>>
    /\ uPipe' = Pipe("generate", 1)
    /\ UNCHANGED <<uPrompt, uCount, uLengthAA, uSeed>>
    /\ UNCHANGED <<coreVars, sizeVars, textVars, pageVars>>

\* screen()
Screen ==
    /\ uPipe.steps < MaxSteps
    /\ uRows' = screenRows(uRows, uPrompt)
    /\ uPipe' = Pipe("screen", IF uPipe.run = 1 THEN 2 ELSE 0)
    /\ UNCHANGED <<uPrompt, uCount, uLengthAA, uSeed, uSel>>
    /\ UNCHANGED <<coreVars, sizeVars, textVars, pageVars>>

\* lab()
Lab ==
    /\ uPipe.steps < MaxSteps
    /\ uRows' = labRows(uRows, uSeed)
    /\ uPipe' = Pipe("lab", IF uPipe.run = 2 THEN 3 ELSE 0)
    /\ UNCHANGED <<uPrompt, uCount, uLengthAA, uSeed, uSel>>
    /\ UNCHANGED <<coreVars, sizeVars, textVars, pageVars>>

ResetKeepingSel ==
    /\ uPipe.steps < MaxSteps
    /\ uRows' = <<>>
    /\ uPipe' = Pipe("reset", 0)
    /\ UNCHANGED <<uPrompt, uCount, uLengthAA, uSeed, uSel>>
    /\ UNCHANGED <<coreVars, sizeVars, textVars, pageVars>>

\* reset()
Reset ==
    /\ uPipe.steps < MaxSteps
    /\ uRows' = <<>>
    /\ uSel' = <<>>
    /\ uPipe' = Pipe("reset", 0)
    /\ UNCHANGED <<uPrompt, uCount, uLengthAA, uSeed>>
    /\ UNCHANGED <<coreVars, sizeVars, textVars, pageVars>>

\* onClick={()=>setSel(r)} on the row rendered at place k
Select(k) ==
    /\ uPipe.steps < MaxSteps
    /\ uSel' = <<uRows[k]>>
    /\ uPipe' = Pipe("select", uPipe.run)
    /\ UNCHANGED <<uPrompt, uCount, uLengthAA, uSeed, uRows>>
    /\ UNCHANGED <<coreVars, sizeVars, textVars, pageVars>>

NextApp ==
    \/ \E text \in AppPrompts : SetPrompt(text)
    \/ \E value \in AppCounts : SetCount(value)
    \/ \E value \in AppLengths : SetLengthAA(value)
    \/ \E value \in AppSeeds : SetSeed(value)
    \/ Generate
    \/ Screen
    \/ Lab
    \/ Reset
    \/ \E k \in 1 .. Len(uRows) : Select(k)

SpecApp == InitApp /\ [][NextApp]_vars

---------------------------------------------------------------------------
(* Properties of mulberry32 (SpecRng) *)

Min(x, y) == IF x <= y THEN x ELSE y

\* the draw d = <<hi, lo>> / 2^32 satisfies 0 <= d < 1
InUnitInterval(d) == d[1] \in 0 .. (Two16 - 1) /\ d[2] \in 0 .. (Two16 - 1)

\* C1: two generators independently constructed with the same seed return
\* identical values on their 1st..Nth calls, however the calls interleave.
C1_SameSeedSameDraws ==
    seedOf[1] = seedOf[2] =>
        \A k \in 1 .. Min(Len(drawn[1]), Len(drawn[2])) : drawn[1][k] = drawn[2][k]

C1_Witness ==
    /\ seedOf[1] = seedOf[2]
    /\ Len(drawn[1]) = MaxDraws /\ Len(drawn[2]) = MaxDraws
    /\ drawn[1][1] # drawn[1][2]
    /\ drawn[2][MaxDraws] = drawn[1][MaxDraws]

\* C2: every value a generator returns is an unsigned 32-bit integer divided
\* by 2^32, so it lies in [0,1), for every seed and every call index.
C2_DrawInUnitInterval ==
    \A g \in Gens : \A k \in 1 .. Len(drawn[g]) : InUnitInterval(drawn[g][k])

\* a returned value of 1/2 or more: its 32-bit pattern has the sign bit set
C2_Witness ==
    \E g \in Gens : \E k \in 1 .. Len(drawn[g]) :
        drawn[g][k][1] >= Two15 /\ InUnitInterval(drawn[g][k])

---------------------------------------------------------------------------
(* Properties of genSeq (SpecSeq) *)

AlphabetSet == {ALPHABET[i] : i \in 1 .. Len(ALPHABET)}

RECURSIVE Concat(_)
Concat(ss) == IF ss = <<>> THEN <<>> ELSE Head(ss) \o Concat(Tail(ss))

RECURSIVE Sum(_)
Sum(ns) == IF ns = <<>> THEN 0 ELSE Head(ns) + Sum(Tail(ns))

\* the first n values generator g returns
RECURSIVE DrawsOf(_, _)
DrawsOf(g, n) ==
    IF n = 0 THEN <<>> ELSE LET r == RngCall(g) IN <<r[1]>> \o DrawsOf(r[2], n - 1)

\* generator g after n calls (g.calls is read at every step so that the
\* generator is evaluated call by call)
RECURSIVE AfterDraws(_, _)
AfterDraws(g, n) ==
    IF n = 0 \/ g.calls < 0 THEN g ELSE AfterDraws(RngCall(g)[2], n - 1)

\* C3: genSeq(len, rng) returns exactly len symbols, each one of the 20
\* letters of the alphabet, and the empty string for len = 0.
C3_GenSeqLengthAndAlphabet ==
    \A k \in 1 .. Len(sOuts) :
        /\ Len(sOuts[k]) = sLens[k]
        /\ \A i \in 1 .. Len(sOuts[k]) : sOuts[k][i] \in AlphabetSet
        /\ (sLens[k] = 0 => sOuts[k] = <<>>)

\* an empty request, and a full-length request whose last draw is the largest
\* value below 1 (index 19, "Y")
C3_Witness ==
    /\ Len(sOuts) = MaxCalls
    /\ sLens[1] = 0 /\ sOuts[1] = <<>>
    /\ sLens[MaxCalls] = MaxLen /\ Len(sOuts[MaxCalls]) = MaxLen
    /\ sOuts[MaxCalls][MaxLen] = "Y"

\* C4: genSeq consumes one draw per symbol, left to right: symbol i of the
\* concatenated results is ALPHABET[floor(draw_i * 20)] for the i-th draw of
\* the generator as constructed, the generator ends advanced by exactly that
\* many draws, and the concatenation equals one genSeq call of the total
\* length on a fresh generator.
C4_OneDrawPerSymbol ==
    LET total == Sum(sLens)
        all   == Concat(sOuts)
        ds    == DrawsOf(sRng0, total)
    IN  /\ Len(all) = total
        /\ \A i \in 1 .. total : <<all[i]>> = AlphabetAt(FloorMul(ds[i], 20))
        /\ all = genSeq(total, sRng0)[1]
        /\ sRng = AfterDraws(sRng0, total)

\* two non-empty calls on a mulberry32 generator, with different symbols drawn
C4_Witness ==
    /\ Len(sOuts) = 2
    /\ sLens[1] > 0 /\ sLens[2] > 0
    /\ sRng0.kind = "mulberry32"
    /\ sOuts[1] \o sOuts[2] = genSeq(sLens[1] + sLens[2], sRng0)[1]
    /\ sOuts[1][1] # sOuts[2][1]

---------------------------------------------------------------------------
(* Properties of toyFoldScore (SpecFold) *)

\* C5: toyFoldScore(seq) lies in [0,100] for every sequence: the empty one,
\* those of one residue class only, those with characters outside the alphabet.
C5_FoldScoreInRange ==
    \A k \in 1 .. Len(fScore) :
        /\ IsFinite(fScore[k])
        /\ FLe(<<0, 1>>, fScore[k]) /\ FLe(fScore[k], <<100, 1>>)

\* the empty sequence has been scored (0.6 * 0 + 0.4 * 100 = 40)
C5_Witness == fSeq = <<>> /\ fScore = << <<40, 1>> >>

---------------------------------------------------------------------------
(* Properties of simulateLab (SpecLab) *)

\* C6: simulateLab(x, rng) lies in [0,160] for every x, finite or not, and
\* every draw in [0,1).
C6_LabInRange ==
    \A k \in 1 .. Len(lRet) :
        /\ lRet[k].k = "fin"
        /\ LLeFin(Fin(0, 0), lRet[k]) /\ LLeFin(lRet[k], Fin(160, 0))

\* a call with x = -1000 (lower clamp) has returned, and so has the generator
C6_Witness ==
    /\ lCount >= 1 /\ lX = <<Fin(-1000, 0)>> /\ lRet = <<Fin(0, 0)>>
    /\ InUnitInterval(lDraw[1])

\* C7: for finite x the result is clamp(x + noise, 0, 160) with
\* noise = (draw - 0.5) * 20 in [-10,10); x = 1000 and every x >= 170 give
\* exactly 160, every x <= -10 gives exactly 0.
C7_LabClampsFinite ==
    \A k \in 1 .. Len(lRet) :
        lX[k].k = "fin" =>
            LET noise == NoiseScaled(lDraw[k], 20)
                sum   == LAddFin(lX[k], noise)
            IN  /\ LLeFin(Fin(-10, 0), noise) /\ noise.ip < 10
                /\ lRet[k] = (IF LLeFin(sum, Fin(0, 0)) THEN Fin(0, 0)
                              ELSE IF LLeFin(Fin(160, 0), sum) THEN Fin(160, 0)
                              ELSE sum)
                /\ (LLeFin(Fin(170, 0), lX[k]) => lRet[k] = Fin(160, 0))
                /\ (LLeFin(lX[k], Fin(-10, 0)) => lRet[k] = Fin(0, 0))

\* simulateLab(170, rng) with the smallest draw, 0: noise is exactly -10
C7_Witness ==
    /\ lX = <<Fin(170, 0)>> /\ lDraw = << <<0, 0>> >> /\ lRet = <<Fin(160, 0)>>

\* C8: when x is NaN, +Infinity or -Infinity the value is coerced to 0 before
\* clamping and simulateLab returns exactly 0 (also for +Infinity, not 160).
C8_NonFiniteGivesZero ==
    \A k \in 1 .. Len(lRet) : lX[k].k # "fin" => lRet[k] = Fin(0, 0)

C8_Witness == lX = <<LPosInf>> /\ lRet = <<Fin(0, 0)>>

\* C9: every call of simulateLab advances the generator it is given by
\* exactly one draw, whatever x is and whether or not a clamp engages.
C9_OneDrawPerLabCall ==
    /\ lRng.calls = lCount
    /\ lRng = AfterDraws(lRng0, lCount)

\* two calls made, the last with x = NaN, on a mulberry32 generator
C9_Witness ==
    /\ lCount = 2 /\ lX = <<LNaN>> /\ lRng.kind = "mulberry32"
    /\ lRng.calls = 2 /\ lRng # lRng0

---------------------------------------------------------------------------
(* Properties of buildBackbone (SpecBackbone) *)

\* C10: buildBackbone('', seed) returns an empty list for every seed, and for
\* a non-empty seq it returns exactly seq.length points, point i belonging to
\* position i.
C10_BackboneLength ==
    \A k \in 1 .. Len(bPts) :
        /\ (bSeq = <<>> => bPts[k] = <<>>)
        /\ Len(bPts[k]) = Len(bSeq)
        /\ \A j \in 1 .. Len(bPts[k]) : bPts[k][j].i = j - 1

\* buildBackbone('ACDEFGHIK', 7) has returned 9 points
C10_Witness ==
    /\ Len(bSeq) = 9 /\ bSeed = <<0, 0, 7>>
    /\ Len(bPts) = 1 /\ Len(bPts[1]) = 9 /\ bPts[1][9].i = 8


\* the generator buildBackbone made for itself, as mulberry32(seed >>> 0)
\* returns it
BackboneRng0 == Mulberry32Rng(Uint32Of(bSeed))

\* C11: buildBackbone seeds its own fresh generator from seed >>> 0 and never
\* reads or advances a generator the caller holds: the caller's generator
\* returns the values it returns when buildBackbone is never called, also
\* when buildBackbone runs between two of its draws.
C11_BackboneOwnGenerator ==
    /\ bCallerDrawn = DrawsOf(bCaller0, Len(bCallerDrawn))
    /\ bHeap[1] = AfterDraws(bCaller0, Len(bCallerDrawn))
    /\ (bPts # <<>> /\ bSeq # <<>> =>
            /\ Len(bHeap) = 2
            /\ bHeap[2] = AfterDraws(BackboneRng0, bHeap[2].calls))

\* buildBackbone ran between the caller's first and second draw, with the
\* seed the caller's generator was made from
C11_Witness ==
    /\ bBuiltAt = 1 /\ Len(bCallerDrawn) = 2
    /\ bSeq # <<>> /\ Len(bPts) = 1
    /\ bCaller0 = BackboneRng0
    /\ bCallerDrawn[1] = bPts[1][1].rJ

\* C12: buildBackbone consumes four draws per point, in the order radius
\* jitter, x jitter, y jitter, z jitter: point i is computed from draws 4i,
\* 4i+1, 4i+2, 4i+3 of the fresh generator, and a call on a sequence of
\* length n consumes exactly 4n draws.
C12_FourDrawsPerPoint ==
    \A k \in 1 .. Len(bPts) :
        LET n  == Len(bSeq)
            ds == DrawsOf(BackboneRng0, 4 * n)
        IN  /\ \A j \in 1 .. Len(bPts[k]) :
                   LET i == j - 1
                   IN  /\ bPts[k][j].rJ = ds[4 * i + 1]
                       /\ bPts[k][j].xJ = ds[4 * i + 2]
                       /\ bPts[k][j].yJ = ds[4 * i + 3]
                       /\ bPts[k][j].zJ = ds[4 * i + 4]
            /\ (n > 0 => bHeap[Len(bHeap)].calls = 4 * n)

\* three points built from twelve draws of the generator seeded with 7
C12_Witness ==
    /\ Len(bSeq) = 3 /\ bSeed = <<0, 0, 7>> /\ Len(bPts) = 1
    /\ bHeap[2].calls = 12
    /\ bPts[1][1].rJ = <<767, 5420>> /\ bPts[1][1].xJ = <<4060, 32530>>
    /\ bPts[1][3].zJ # bPts[1][3].yJ

---------------------------------------------------------------------------
(* Properties of comp and toyFoldScore (SpecFold) *)

\* how many code units of seq are in the set cs
CountIn(seq, cs) == Cardinality({i \in 1 .. Len(seq) : seq[i] \in cs})

\* how many characters (code points) seq has: its code units, less one for
\* every high surrogate that a low surrogate follows
NumChars(seq) ==
    Len(seq) - Cardinality({i \in 1 .. (Len(seq) - 1) :
                               seq[i] = HighSurrogate /\ seq[i + 1] = LowSurrogate})

\* C16: comp counts every character of seq in exactly one of h (AVILMFWY),
\* b (KRH), a (DE) and o (everything else, also characters outside the
\* alphabet), so h + b + a + o is the number of characters (code points, as
\* for...of visits them) of seq.
C16_CompPartitions ==
    \A k \in 1 .. Len(fComp) :
        LET c == fComp[k]
        IN  /\ HYDRO \cap BASIC = {} /\ HYDRO \cap ACID = {} /\ BASIC \cap ACID = {}
            /\ c.h = CountIn(fSeq, HYDRO)
            /\ c.b = CountIn(fSeq, BASIC)
            /\ c.a = CountIn(fSeq, ACID)
            /\ c.o = NumChars(fSeq) - CountIn(fSeq, HYDRO \cup BASIC \cup ACID)
            /\ c.h + c.b + c.a + c.o = NumChars(fSeq)

\* two hydrophobic residues and three characters outside the alphabet
C16_Witness ==
    /\ fSeq = Rep("A", 2) \o Rep("X", 3)
    /\ Len(fComp) = 1 /\ fComp[1].h = 2 /\ fComp[1].o = 3

Max(x, y) == IF x >= y THEN x ELSE y

\* C17: toyFoldScore(seq) = clamp(0.6*hyd + 0.4*chg, 0, 100) with
\* hyd = 100 - min(100, |h/max(1,len) - 0.45| * 400) and
\* chg = 100 - min(100, |b - a| * 10) on the raw counts h, b, a.
\* With n = max(1, len): n * hyd = 100 n - min(100 n, |400 h - 180 n|) and
\* 10 n * score = clamp(6 * (n * hyd) + 4 * n * chg, 0, 1000 n).
C17_FoldScoreFormula ==
    \A k \in 1 .. Len(fScore) :
        LET h    == CountIn(fSeq, HYDRO)
            b    == CountIn(fSeq, BASIC)
            a    == CountIn(fSeq, ACID)
            n    == Max(1, Len(fSeq))
            nhyd == 100 * n - Min(100 * n, Abs(400 * h - 180 * n))
            chg  == 100 - Min(100, Abs(b - a) * 10)
            sc   == Max(0, Min(1000 * n, 6 * nhyd + 4 * n * chg))
        IN  /\ IsFinite(fScore[k])
            /\ fScore[k][1] * 10 * n = sc * fScore[k][2]

\* five basic and five hydrophobic residues: hyd = 80, chg = 50, score 68
C17_Witness ==
    /\ fSeq = Rep("K", 5) \o Rep("A", 5)
    /\ fScore = << <<68, 1>> >>

---------------------------------------------------------------------------
(* Properties of hashPrompt (SpecHash) *)

\* x <= y and x < y for two integers kept as pairs <<hi, lo>>
WLe(x, y) == x[1] < y[1] \/ (x[1] = y[1] /\ x[2] <= y[2])
WLt(x, y) == x[1] < y[1] \/ (x[1] = y[1] /\ x[2] < y[2])

\* 32-bit FNV-1a by shifts and additions: h * 16777619 = (h << 24) + h * 403
FnvMul(h) ==
    LET l == h[2] * 403
        m == h[1] * 403 + (l \div Two16)
    IN  AddW(<<(h[2] % Two8) * Two8, 0>>, <<m % Two16, l % Two16>>)

RECURSIVE Fnv1a(_, _)
Fnv1a(prompt, h) ==
    IF prompt = <<>> THEN h
    ELSE Fnv1a(Tail(prompt), FnvMul(<<h[1], XorBits(h[2], Head(prompt), 16)>>))

\* C18 as stated: hashPrompt(prompt) is in [0,1), strictly below 1, for
\* every prompt.
C18_HashBelowOne ==
    \A k \in 1 .. Len(hOut) :
        /\ WLe(<<0, 0>>, hOut[k][1])
        /\ WLt(hOut[k][1], hOut[k][2])

\* C18, amended: hashPrompt(prompt) is the 32-bit FNV-1a accumulator of the
\* prompt divided by 0xFFFFFFFF, so it is in [0,1], and it is 1 exactly when
\* the accumulator is 0xFFFFFFFF.
C18_HashInClosedUnitInterval ==
    \A k \in 1 .. Len(hOut) :
        /\ hOut[k][1] = Fnv1a(hPrompt, OffsetBasis)
        /\ hOut[k][2] = <<65535, 65535>>
        /\ WLe(<<0, 0>>, hOut[k][1])
        /\ WLe(hOut[k][1], hOut[k][2])

\* the prompt "U[-_4", whose accumulator is 0xFFFFFFFF: the value returned is 1
C18_Witness ==
    /\ hPrompt = <<85, 91, 45, 95, 52>>
    /\ hOut = << <<HashDivisor, HashDivisor>> >>

---------------------------------------------------------------------------
(* Properties of toyActivity (SpecActivity) *)

\* C13: toyActivity(seq, prompt) is a pure function: two calls with the same
\* (seq, prompt) return the same value, whatever the program drew from its
\* generator before and between them, and the calls leave the generator alone.
C13_ActivityPure ==
    /\ \A i, j \in 1 .. Len(aCalls) : aCalls[i].ret = aCalls[j].ret
    /\ aRng = AfterDraws(Mulberry32Rng(<<0, 0, 42>>), aRng.calls)
    /\ aRng.calls <= MaxActDraws

\* two calls with one draw before the first and one between the two
C13_Witness ==
    /\ Len(aCalls) = 2
    /\ aCalls[1].at = 1 /\ aCalls[2].at = 2
    /\ aSeq = <<"K", "R", "G", "P">>
    /\ aPrompt = <<97>>
    /\ aCalls[2].ret = [rat |-> <<162, 5>>, ph |-> <<<<58380, 10540>>, <<65535, 65535>>>>]

\* the motifs that occur in seq, found pair by pair
MotifsPresent(seq) ==
    {m \in {"GL", "GP", "KR", "HG", "FY"} :
        \E i \in 1 .. (Len(seq) - 1) :
            seq[i] \o seq[i + 1] = m}

\* C14: the motif bonus of toyActivity is 5 times the number of distinct
\* motifs among GL, GP, KR, HG, FY that occur in the sequence (once per motif,
\* however often it occurs, overlapping motifs each counted), one of 0, 5,
\* 10, 15, 20, 25, and it is the motif term of the value returned.
C14_MotifBonus ==
    \A k \in 1 .. Len(aCalls) :
        /\ aCalls[k].motif = 5 * Cardinality(MotifsPresent(aSeq))
        /\ aCalls[k].motif \in {0, 5, 10, 15, 20, 25}
        /\ aCalls[k].ret.rat = FAdd(FMul(<<7, 10>>, toyFoldScore(aSeq)), <<aCalls[k].motif, 1>>)

\* "HGLGL": HG and GL overlap and GL occurs twice, the bonus is 10
C14_Witness ==
    /\ aSeq = <<"H", "G", "L", "G", "L">>
    /\ Len(aCalls) >= 1
    /\ aCalls[1].motif = 10

\* Integers beyond 32 bits as triples <<top, hi, lo>> (see TNorm)
TOfWord(w) == TNorm(0, w[1], w[2])

TAdd(x, y) == TNorm(x[1] + y[1], x[2] + y[2], x[3] + y[3])

\* x * m for |m| < 2^15
TMulSmall(x, m) == TNorm(x[1] * m, x[2] * m, x[3] * m)

\* x * m for |m| < 2^29
TMulInt(x, m) ==
    TAdd(TMulSmall(TMulSmall(x, m \div Two14), Two14), TMulSmall(x, m % Two14))

TLe(x, y) ==
    \/ x[1] < y[1]
    \/ x[1] = y[1] /\ x[2] < y[2]
    \/ x[1] = y[1] /\ x[2] = y[2] /\ x[3] <= y[3]

\* C15: toyActivity returns a finite number in [0,115] for every sequence
\* and every prompt.  With rat = p / q and ph = n / d the value is
\* p / q + 20 n / d, so the claim is 0 <= p d + 20 q n <= 115 q d.
C15_ActivityInRange ==
    \A k \in 1 .. Len(aCalls) :
        LET r == aCalls[k].ret
            p == r.rat[1]
            q == r.rat[2]
            n == TOfWord(r.ph[1])
            d == TOfWord(r.ph[2])
            v == TAdd(TMulInt(d, p), TMulInt(TMulSmall(n, 20), q))
        IN  /\ IsFinite(r.rat) /\ q > 0
            /\ d # <<0, 0, 0>> /\ TLe(<<0, 0, 0>>, d)
            /\ TLe(<<0, 0, 0>>, v)
            /\ TLe(v, TMulInt(TMulSmall(d, 115), q))

\* fold = 100, hash = 1 and every motif: the value returned is 95 + 20 = 115
C15_Witness ==
    /\ aSeq = SeqBest
    /\ aPrompt = PromptAllOnes
    /\ Len(aCalls) >= 1
    /\ aCalls[1].ret = [rat |-> <<95, 1>>, ph |-> <<HashDivisor, HashDivisor>>]

---------------------------------------------------------------------------
(* Properties of mulberry32: seeds and instances (SpecRng) *)

\* C19: every integer seed is wrapped to 32 bits: mulberry32(s) returns the
\* same sequence of values as mulberry32(s mod 2^32), for every integer s.
C19_SeedWrapped ==
    \A g \in Gens :
        drawn[g] = DrawsOf(Mulberry32Rng(Uint32Of(seedOf[g])), Len(drawn[g]))

\* C20: generator instances do not interfere: under every interleaving of
\* the calls to two generators, the k-th value a generator returns is the
\* k-th value it returns when it is the only one called.
C20_NoInterference ==
    \A g \in Gens :
        drawn[g] = DrawsOf(Mulberry32Rng(seedOf[g]), Len(drawn[g]))

\* seeds 7 and 42, each generator called MaxDraws times
C20_Witness ==
    /\ seedOf[1] = <<0, 0, 7>> /\ seedOf[2] = <<0, 0, 42>>
    /\ Len(drawn[1]) = MaxDraws /\ Len(drawn[2]) = MaxDraws
    /\ drawn[1][1] = <<767, 5420>>
    /\ drawn[1] # drawn[2]

---------------------------------------------------------------------------
(* Properties of safeSize (SpecSize) *)

\* x is a finite number greater than 0
IsPositiveFinite(x) == IsFinite(x) /\ x[1] > 0

\* the fallback in force: 16 when the argument is left out
FallbackOf(fallback) == IF fallback = Undef THEN Num(<<16, 1>>) ELSE fallback

\* C23: safeSize(v, fallback) returns v as a number when v is a finite number
\* greater than 0 or a string that parses to one, and the fallback (16 by
\* default) for undefined, 0, negative numbers, NaN, infinities and strings
\* that do not parse to a finite number greater than 0; the result is a
\* finite number greater than 0 whenever the fallback is.
C23_SafeSize ==
    \A k \in 1 .. Len(zOut) :
        LET r  == zOut[k]
            fb == FallbackOf(zFallback)
        IN  /\ (zV.t = "number" /\ IsPositiveFinite(zV.n)) => r = zV
            /\ (zV.t = "number" /\ ~IsPositiveFinite(zV.n)) => r = fb
            /\ zV.t = "undefined" => r = fb
            /\ (zV.t = "string" /\ IsPositiveFinite(StringToNumber(zV.s)))
                  => r = Num(StringToNumber(zV.s))
            /\ (zV.t = "string" /\ ~IsPositiveFinite(StringToNumber(zV.s))) => r = fb
            /\ zV = Str(<<"2", "0">>) => r = Num(<<20, 1>>)
            /\ zV = Str(<<" ", "2", "0", " ">>) => r = Num(<<20, 1>>)
            /\ zV = Str(<<"2", ".", "5">>) => r = Num(<<5, 2>>)
            /\ zV \in {Str(<<"b", "a", "d">>), Str(<<>>), Str(<<"-", "5">>), Str(<<"0">>),
                       Str(<<"2", " ", "0">>), Str(<<"-", "0">>), Str(<<".">>), Str(<<"+", "-">>),
                       Str(<<"I", "n", "f", "i", "n", "i", "t", "y">>)} => r = fb
            /\ (fb.t = "number" /\ IsPositiveFinite(fb.n))
                  => (r.t = "number" /\ IsPositiveFinite(r.n))

\* the string '20' with the default fallback gives the number 20
C23_Witness ==
    /\ zV = Str(<<"2", "0">>)
    /\ zFallback = Undef
    /\ zOut = <<Num(<<20, 1>>)>>

---------------------------------------------------------------------------
(* Properties of textToProtein (SpecText) *)

\* C29: textToProtein(text) is '' for the empty text and otherwise has one
\* symbol per character of text, symbol i being aminoAcids[charCode mod 20]
\* in the order A R N D C E Q G H I L K M F P S T W Y V; every symbol is one
\* of these 20 letters, and the sequence is determined by the text.
C29_TextToProtein ==
    \A k \in 1 .. Len(tOut) :
        LET out == tOut[k]
            aa  == [j \in 0 .. 19 |->
                      << "A", "R", "N", "D", "C", "E", "Q", "G", "H", "I",
                         "L", "K", "M", "F", "P", "S", "T", "W", "Y", "V" >>[j + 1]]
        IN  /\ Len(out) = Len(tText)
            /\ tText = <<>> => out = <<>>
            /\ \A i \in 1 .. Len(out) : out[i] = aa[tText[i] % 20]
            /\ \A i \in 1 .. Len(out) : out[i] \in {aa[j] : j \in 0 .. 19}

\* "HELLO" (char codes 72 69 76 76 79) becomes MITTV
C29_Witness ==
    /\ tText = <<72, 69, 76, 76, 79>>
    /\ tOut = << <<"M", "I", "T", "T", "V">> >>

---------------------------------------------------------------------------
(* Properties of the legacy page (SpecPage) *)

\* C24: create3DProtein adds connections between adjacent amino acids: for
\* every i from 1 to n-1 the connection added at step i joins the position of
\* sphere i-1 to the position of sphere i, for sequences of every length n.
C24_ConnectionsJoinNeighbours ==
    LET n  == Len(pMesh.sequence)
        ch == pMesh.children
    IN  \A i \in 1 .. (n - 1) :
            \E c \in 1 .. Len(ch) :
                /\ ch[c].kind = "connection" /\ ch[c].i = i
                /\ ch[c].ends = << [a |-> ((i - 1) * 100) % 360, y |-> 2 * (i - 1) - n, mid |-> <<>>],
                                   [a |-> (i * 100) % 360, y |-> 2 * i - n, mid |-> <<>>] >>

\* once every timer that was set has fired, the page shows the most recent
\* request
AllFiredShowsLast ==
    /\ pCounts.fired + Len(pTimers) = Len(pLast)
    /\ pTimers # <<>> => (pLast # <<>> /\ pTimers[Len(pTimers)] = pLast[Len(pLast)])
    /\ (pTimers = <<>> /\ pLast # <<>>) =>
          LET text == pLast[Len(pLast)]
          IN  /\ pBtn = [disabled |-> FALSE, textContent |-> "Generate Protein",
                         loading |-> FALSE]
              /\ pDisplay = formatSequence(textToProtein(text))
              /\ pMesh.sequence = textToProtein(text)
              /\ Len(pMesh.sequence) = Len(text)
    /\ pLast = <<>> => (pDisplay = <<>> /\ pMesh.sequence = <<"H", "E", "L", "L", "O">>)

\* what a generateProtein call does: with non-blank text (a request is
\* added) the button is disabled and one timer is set for that text; with
\* blank text (an alert is shown) nothing else of the page changes
CallEffect ==
    /\ pLast' # pLast =>
          /\ pBtn'.disabled /\ pBtn'.textContent = "Generating..."
          /\ pLast' = Append(pLast, TrimCodes(pInput'))
          /\ pTimers' = Append(pTimers, TrimCodes(pInput'))
          /\ TrimCodes(pInput') # <<>>
    /\ pCounts'.alerts # pCounts.alerts =>
          /\ TrimCodes(pInput') = <<>>
          /\ UNCHANGED <<pBtn, pTimers, pDisplay, pMesh, pLast>>

\* C30: a generateProtein call with non-blank text disables the generate
\* button and sets one timer; a call with blank text shows an alert and
\* changes nothing else; and under every interleaving of clicks and timers,
\* once every timer that was set has fired, the button is enabled with the
\* label 'Generate Protein' and the sequence and the structure displayed are
\* those of the text of the most recent request.
C30_LastRequestWins == [][CallEffect /\ AllFiredShowsLast']_vars

\* two requests with different texts were pending together and both timers
\* have fired: the page shows the second
C30_Witness ==
    /\ pTimers = <<>>
    /\ pCounts.pending = 2 /\ pCounts.fired = 2 /\ pCounts.alerts = 1
    /\ pLast = << <<72, 73>>, <<72, 69, 76, 76, 79>> >>
    /\ pDisplay = <<"M", "I", "T", "T", "V">>
    /\ ~pBtn.disabled


---------------------------------------------------------------------------
(* Properties of App (SpecApp) *)

\* the step taken is a run of the handler named
HandlerRan(name) == uPipe'.steps = uPipe.steps + 1 /\ uPipe'.last = name

\* C22: reset empties the row list and sets the selection to null, and it
\* leaves prompt, count, lengthAA and seed as they were.
C22_ResetClears ==
    [][HandlerRan("reset") =>
          /\ uRows' = <<>>
          /\ uSel' = <<>>
          /\ UNCHANGED <<uPrompt, uCount, uLengthAA, uSeed>>]_vars

\* reset has just run after at least two other handlers, with an edited
\* prompt and an edited seed still in place
C22_Witness ==
    /\ uPipe.last = "reset" /\ uPipe.steps >= 3
    /\ uRows = <<>> /\ uSel = <<>>
    /\ uPrompt = <<97>> /\ uSeed = <<15, 2>>

\* C28: whenever a row is selected, the row list holds a row with the same
\* id and the same sequence.
C28_SelectionHasRow ==
    uSel # <<>> =>
        \E k \in 1 .. Len(uRows) : uRows[k].id = uSel[1].id /\ uRows[k].seq = uSel[1].seq

\* a row was selected and the rows were screened afterwards: the selection
\* is a row as it was, equal to none of the rows of the list
C28_Witness ==
    /\ uSel # <<>>
    /\ uPipe.last = "screen"
    /\ Len(uRows) = 3
    /\ \A k \in 1 .. Len(uRows) : uRows[k] # uSel[1]


\* the characters of `42-${i}-2.5`
Id4225(i) == <<"4", "2", "-", i, "-", "2", ".", "5">>

\* the rows the three handlers build in turn from the four inputs alone
PipelineRows(seed, prompt, count, lengthAA) ==
    labRows(screenRows(generateRows(seed, count, lengthAA), prompt), seed)

\* C21: from any state, generate then screen then lab run in a row with
\* seed, prompt, count and lengthAA unchanged leave rows that depend on
\* these four inputs only (ids, sequences, fold, pred, lab and order), and
\* so do the rows after generate alone and after generate then screen.
C21_PipelineReproducible ==
    /\ uPipe.run = 1 /\ uPipe.last = "generate" =>
           uRows = generateRows(uSeed, uCount, uLengthAA)
    /\ uPipe.run = 2 /\ uPipe.last = "screen" =>
           uRows = screenRows(generateRows(uSeed, uCount, uLengthAA), uPrompt)
    /\ uPipe.run = 3 => uRows = PipelineRows(uSeed, uPrompt, uCount, uLengthAA)

\* the three handlers have run in a row after three other handler runs, with
\* seed 42, the default prompt and 2.5 in both size fields: three rows, the
\* third one generated first
C21_Witness ==
    /\ uPipe.run = 3 /\ uPipe.last = "lab" /\ uPipe.steps = 6
    /\ uSeed = <<42, 1>> /\ uPrompt = PromptDefault
    /\ uCount = <<5, 2>> /\ uLengthAA = <<5, 2>>
    /\ [k \in 1 .. Len(uRows) |-> uRows[k].id] = <<Id4225("2"), Id4225("0"), Id4225("1")>>
    /\ [k \in 1 .. Len(uRows) |-> uRows[k].seq] =
           << <<"G", "P", "V">>, <<"P", "K", "V">>, <<"Q", "E", "M">> >>
    /\ [k \in 1 .. Len(uRows) |-> uRows[k].fold] = << <<72, 1>>, <<68, 1>>, <<68, 1>> >>
    /\ \A k \in 1 .. Len(uRows) : uRows[k].lab # <<>> /\ uRows[k].lab[1].k = "sum"

\* the row without its scores and its lab value
Identity(r) == <<r.id, r.seq>>

\* rows2 holds the rows of rows1, each once, in some order, with the same id,
\* seq and lab
SameRowsReordered(rows1, rows2) ==
    /\ Len(rows2) = Len(rows1)
    /\ \E f \in Permutations(1 .. Len(rows1)) :
          \A k \in 1 .. Len(rows1) :
              /\ rows2[k].id = rows1[f[k]].id
              /\ rows2[k].seq = rows1[f[k]].seq
              /\ rows2[k].lab = rows1[f[k]].lab

ScreenEffect ==
    /\ SameRowsReordered(uRows, uRows')
    /\ {Identity(uRows'[k]) : k \in 1 .. Len(uRows')} = {Identity(uRows[k]) : k \in 1 .. Len(uRows)}
    /\ \A k \in 1 .. Len(uRows') :
          /\ uRows'[k].fold = toyFoldScore(uRows'[k].seq)
          /\ uRows'[k].pred = toyActivity(uRows'[k].seq, uPrompt)
    /\ \A i, j \in 1 .. Len(uRows') :
          i < j => ActivityCmp(uRows'[i].pred, uRows'[j].pred) >= 0
    /\ uSel' = uSel

\* C25: screen leaves a reordering of the rows it found: as many rows, the
\* same (id, seq) pairs, each row with the lab value it had, fold and pred
\* recomputed from the sequence and the current prompt, pred non-increasing
\* down the list; the selection is unchanged.
C25_ScreenSortsAndRescores == [][HandlerRan("screen") => ScreenEffect]_vars

\* screen has just run on rows that had lab values, with a row selected, and
\* has moved the row generated last to the top
C25_Witness ==
    /\ uPipe.last = "screen"
    /\ Len(uRows) = 3
    /\ uRows[1].id = Id4225("2")
    /\ \A k \in 1 .. Len(uRows) : uRows[k].lab # <<>>
    /\ uRows[1].pred # uRows[2].pred /\ uRows[2].pred = uRows[3].pred
    /\ uSel # <<>>

\* the sequences of rows one after the other
RECURSIVE ConcatSeqs(_)
ConcatSeqs(rows) == IF rows = <<>> THEN <<>> ELSE Head(rows).seq \o ConcatSeqs(Tail(rows))

GenerateEffect ==
    /\ IF uCount[1] <= 0 THEN uRows' = <<>> ELSE <<Len(uRows'), 1>> = uCount
    /\ \A k \in 1 .. Len(uRows') :
          /\ uRows'[k].id = NumberToString(uSeed) \o <<"-">> \o NatToString(k - 1)
                              \o <<"-">> \o NumberToString(uLengthAA)
          /\ <<Len(uRows'[k].seq), 1>> = uLengthAA
          /\ uRows'[k].fold = <<0, 1>>
          /\ uRows'[k].pred = ZeroActivity
          /\ uRows'[k].lab = <<>>
    /\ ConcatSeqs(uRows') =
           genSeq(Len(ConcatSeqs(uRows')), Mulberry32Rng(ShiftRightZero(uSeed)))[1]
    /\ \A i, j \in 1 .. Len(uRows') : i # j => uRows'[i].id # uRows'[j].id
    /\ uSel' = <<>>

\* C26: generate replaces the rows by exactly count fresh rows (none when
\* count <= 0); row i has the id `${seed}-${i}-${lengthAA}`, a sequence of
\* lengthAA symbols, the symbols of all rows drawn consecutively from one
\* generator seeded with seed >>> 0, fold 0, pred 0 and no lab; the ids are
\* pairwise distinct and the selection is null.
C26_GenerateFreshRows == [][HandlerRan("generate") => GenerateEffect]_vars

\* pred + (d / 2^32 - 0.5) * 20 is strictly between 0 and 160
NoisySumInRange(pred, d) ==
    /\ BCmp(LabScaledSum(pred, d), LabScaled(pred, 10)) > 0
    /\ BCmp(LabScaledSum(pred, d), LabScaled(pred, 170)) < 0

LabEffect ==
    LET n  == Len(uRows)
        ds == DrawsOf(Mulberry32Rng(ShiftRightZero(FAdd(uSeed, <<999, 1>>))), n)
    IN  /\ Len(uRows') = n
        /\ \A k \in 1 .. n :
              /\ [uRows'[k] EXCEPT !.lab = <<>>] = [uRows[k] EXCEPT !.lab = <<>>]
              /\ Len(uRows'[k].lab) = 1
              /\ LET v == uRows'[k].lab[1]
                 IN  \/ v = LabZero
                        /\ BCmp(LabScaledSum(uRows[k].pred, ds[k]), LabScaled(uRows[k].pred, 10)) <= 0
                     \/ v = LabCap
                        /\ BCmp(LabScaledSum(uRows[k].pred, ds[k]), LabScaled(uRows[k].pred, 170)) >= 0
                     \/ v = [k |-> "sum", x |-> uRows[k].pred, d |-> ds[k]]
                        /\ NoisySumInRange(uRows[k].pred, ds[k])
        /\ uPipe.last = "lab" => uRows' = uRows

\* C27: lab gives every row, in row order, the value of simulateLab(pred, rng)
\* for one generator seeded with (seed + 999) >>> 0, one draw a row: 0, 160 or
\* pred + noise between them, with noise = (draw - 0.5) * 20 in [-10, 10); it
\* keeps the order of the rows and their id, seq, fold and pred; run twice in
\* a row it leaves the rows as the first run left them.
C27_LabAddsNoisyValues == [][HandlerRan("lab") => LabEffect]_vars

\* lab has run on screened rows, and then once more: every row has a lab
\* value strictly between 0 and 160
C27_Witness ==
    /\ uPipe.last = "lab" /\ uPipe.run = 0 /\ uPipe.steps = 4
    /\ uPrompt = PromptDefault /\ uSeed = <<42, 1>>
    /\ Len(uRows) = 3
    /\ uRows[1].id = Id4225("2")
    /\ \A k \in 1 .. Len(uRows) :
          /\ uRows[k].pred = toyActivity(uRows[k].seq, uPrompt)
          /\ uRows[k].lab # <<>> /\ uRows[k].lab[1].k = "sum"

=============================================================================
